---- MODULE Spec2Model ----
(***************************************************************************)
(* Chat command dispatch and rate limiting of the bridge's extensions:     *)
(* hypixel-stats (stats handlers, cooldowns, in-flight set, lookup cache), *)
(* urchin-blacklist (!view) and fun-bot (sendResponse).                    *)
(*                                                                         *)
(* One behaviour follows one extension instance (ext): the extensions own  *)
(* private cooldown maps and in-flight sets and share no state.            *)
(* Strings are sequences of one-character strings, so that toLowerCase,    *)
(* includes, trim and template concatenation are computed, not assumed.    *)
(***************************************************************************)
EXTENDS Integers, Sequences, FiniteSets, TLC

VARIABLES
    ext,                 \* the extension instance this behaviour follows
    now,                 \* Date.now(), in milliseconds
    lines,               \* chat lines handed to the extension so far
    cooldowns,           \* Map<string, number>: username -> last accepted time
    processingRequests,  \* Set<string>: request keys in flight
    cache,               \* Map<string, CacheEntry> (hypixel-stats)
    execs,               \* handler executions awaiting, in arrival order
    chat,                \* messages the last step sent through api.chat
    dels,                \* processingRequests.delete calls the last step made
    accepted,            \* per user: time of the last and count of accepted requests
    rankCooldowns,       \* config.guildRankCooldowns: rank label -> seconds
    pingCount,           \* fun-bot pingCount
    lastPingTime,        \* fun-bot lastPingTime
    sent,                \* the execution whose response this step sent, if any
    intervals,           \* the instance's interval fields that hold a handle: field -> timer id
    timers,              \* the intervals scheduled in the event loop: <<field, timer id>>
    timerIds,            \* setInterval calls made so far
    lifecycle,           \* the last lifecycle hook the host called on the instance
    enabled,             \* config.enabled !== false
    recentResponses,     \* fun-bot recentResponses: <<username, window>> -> time
    analyticsData,       \* staff-management analyticsData
    events,              \* logEvent calls made so far
    saves,               \* saveAnalyticsData calls made so far
    reports,             \* the days on which a bi-weekly report was sent, in order
    exitScheduled,       \* the process.exit timer of !reboot is set
    isUpdating,          \* OnlinePlayersTracker.isUpdating
    lastUpdate,          \* OnlinePlayersTracker.lastUpdate
    calls,               \* the calls of updateOnlinePlayers, in order
    registered,          \* extension ids whose patterns are registered, in order
    message,             \* context.message of the last chat line dispatched
    invoked,             \* ids of the patterns whose handlers that line invoked
    sender,              \* context.username of that line (<<>>: a server line)
    logged,              \* logEvent('message', ...) calls made for that line
    running,             \* the dispatcher's line-processing loop is alive
    outstanding,         \* handler promises that have not settled
    caught               \* the dispatcher has caught and logged a handler's rejection

\* the online-players tracker's part of the state
trackerVars == <<isUpdating, lastUpdate, calls>>

\* the staff-management extension's part of the state
staffVars == <<analyticsData, events, saves, reports, exitScheduled>>

\* fun-bot's bot-mention handler
mentionVars == <<recentResponses>>

\* the instance's timers and lifecycle
lifecycleVars == <<intervals, timers, timerIds, lifecycle, enabled>>

\* the dispatcher's part of the state
dispatchVars == <<registered, message, invoked, sender, logged,
                  running, outstanding, caught>>

vars == <<ext, now, lines, cooldowns, processingRequests, cache, execs,
          chat, dels, accepted, rankCooldowns, pingCount, lastPingTime, sent,
          lifecycleVars, mentionVars, staffVars, trackerVars, dispatchVars>>

----------------------------------------------------------------------------
(* Bounds of the model *)

MaxLines == 2        \* chat lines per behaviour
MaxTicks == 2        \* clock advances per behaviour
TickMs == 1000       \* one clock advance, in milliseconds
StartTime == 1       \* Date.now() at construction (never 0)
cacheExpiryTime == 1000   \* config.cacheExpiryTime as configured here (ms)
MaxTags == 2         \* tags in one Urchin response
MaxOutstanding == 2        \* handler promises pending at once
pingWindow == 2000   \* the "pinged recently" window of handlePing (ms)

MaxCalls == 3        \* calls of updateOnlinePlayers in one behaviour
MaxPlayers == 1      \* player names one collector gathers
MaxTimers == 4       \* setInterval calls after which init is no longer called

EndTime == StartTime + MaxTicks * TickMs

----------------------------------------------------------------------------
(* Strings *)

Upper == <<"A","B","C","D","E","F","G","H","I","J","K","L","M",
           "N","O","P","Q","R","S","T","U","V","W","X","Y","Z">>
Lower == <<"a","b","c","d","e","f","g","h","i","j","k","l","m",
           "n","o","p","q","r","s","t","u","v","w","x","y","z">>

LowerChar(c) ==
    IF \E i \in DOMAIN Upper : Upper[i] = c
    THEN Lower[CHOOSE i \in DOMAIN Upper : Upper[i] = c]
    ELSE c

\* String.prototype.toLowerCase
toLowerCase(s) == [i \in DOMAIN s |-> LowerChar(s[i])]

\* String.prototype.includes
includes(s, sub) ==
    \E i \in 0..(Len(s) - Len(sub)) : SubSeq(s, i + 1, i + Len(sub)) = sub

RECURSIVE trimStart(_)
trimStart(s) == IF s # <<>> /\ Head(s) = " " THEN trimStart(Tail(s)) ELSE s

RECURSIVE trimEnd(_)
trimEnd(s) ==
    IF s # <<>> /\ s[Len(s)] = " " THEN trimEnd(SubSeq(s, 1, Len(s) - 1)) ELSE s

\* String.prototype.trim
trim(s) == trimEnd(trimStart(s))

Alice == <<"A","l","i","c","e">>
Bob == <<"B","o","b">>
Steve == <<"S","t","e","v","e">>
steve == <<"s","t","e","v","e">>

str_mojang == <<"m","o","j","a","n","g">>
str_player == <<"p","l","a","y","e","r">>
str_skyblock == <<"s","k","y","b","l","o","c","k">>
str_view == <<"v","i","e","w">>
str_Duels == <<"D","u","e","l","s">>
str_SkyBlockCollections ==
    <<"S","k","y","B","l","o","c","k"," ","C","o","l","l","e","c","t","i","o","n","s">>
str_SkyBlock == <<"S","k","y","B","l","o","c","k">>
str_SkyBlockNetworth == str_SkyBlock \o <<" ">> \o <<"N","e","t","w","o","r","t","h">>
str_Networth == <<"N","e","t","w","o","r","t","h">>

str_GuildMaster == <<"G","u","i","l","d"," ","M","a","s","t","e","r">>
str_guildmaster == <<"g","u","i","l","d","m","a","s","t","e","r">>
str_GM == <<"G","M">>
str_Leader == <<"L","e","a","d","e","r">>
str_Moderator == <<"M","o","d","e","r","a","t","o","r">>
str_Mod == <<"M","o","d">>
str_Elite == <<"E","l","i","t","e">>
str_Member == <<"M","e","m","b","e","r">>
str_SBMAIN == <<"S","B","M","A","I","N">>

----------------------------------------------------------------------------
(* Values *)

null == -1           \* a numeric result that is null
undefined == -2      \* a numeric lookup that is undefined

Extensions == {"hypixel-stats", "urchin-blacklist", "fun-bot"}

Users == {Alice, Bob}

\* context.guildRank of each user, as the chat line carries it
GuildRankOf(u) == IF u = Alice THEN str_Member ELSE <<"[">> \o str_GM \o <<"]">>

\* getChatPatterns: a handler whose gameMode includes 'SkyBlock' or 'Networth'
\* is wired through createSkyBlockStatsHandler, any other through
\* createStatsHandler
isSkyBlockHandler(gameMode) ==
    includes(gameMode, str_SkyBlock) \/ includes(gameMode, str_Networth)

\* allHandlers entries
duelsHandler ==
    [command |-> "duels", gameMode |-> str_Duels,
     skyblock |-> isSkyBlockHandler(str_Duels)]
uhcDuelsHandler ==
    [command |-> "uhcduels", gameMode |-> str_Duels,
     skyblock |-> isSkyBlockHandler(str_Duels)]
skyblockCollectionsHandler ==
    [command |-> "sbcollections", gameMode |-> str_SkyBlockCollections,
     skyblock |-> isSkyBlockHandler(str_SkyBlockCollections)]
skyblockNetworthHandler ==
    [command |-> "sbnetworth", gameMode |-> str_SkyBlockNetworth,
     skyblock |-> isSkyBlockHandler(str_SkyBlockNetworth)]

\* handlers whose buildStatsMessage looks the player up itself
\* (networth.ts lines 33-43)
FetchingBuilders == {skyblockNetworthHandler}

\* The chat lines the extensions are given: <<username, handler, matches[1]>>
\* (matches[1] = <<>>: the optional group did not match)
StatsLines ==
    {<<Alice, duelsHandler, Steve>>, <<Bob, skyblockCollectionsHandler, steve>>}

ViewLines == {<<Alice, Steve>>, <<Bob, <<>>>>}

NoData == [kind |-> "none"]

\* OnlinePlayersTracker.lastUpdate as constructed: no players; `from` names
\* the collector whose data an update holds
NoUpdate == [from |-> 0, players |-> 0]

\* The UUID Mojang answers for a username (names are case-insensitive there)
UuidOf(name) == <<"#">> \o toLowerCase(name)

\* What fetchMojangProfile answers for a username at time t
MojangProfile(name, t) == [kind |-> str_mojang, id |-> UuidOf(name), asOf |-> t]

\* What a provider answers for a UUID at time t: the player's data as of t
ProviderData(type, uuid, t) == [kind |-> type, id |-> uuid, asOf |-> t]

----------------------------------------------------------------------------
(* Configuration: { ...defaultConfig, ...api.config } *)

\* hypixel-stats config.guildRankCooldowns as configured here (seconds)
HypixelRankCooldowns ==
    (str_GuildMaster :> 0) @@ (str_Leader :> 0) @@ (str_Moderator :> 0)
        @@ (str_Elite :> 2) @@ (str_Member :> 1)

\* fun-bot config.guildRankCooldowns (seconds)
FunBotRankCooldowns ==
    (str_GM :> 0) @@ (str_Leader :> 1) @@ (str_SBMAIN :> 1)
        @@ (str_Elite :> 1) @@ (str_Mod :> 1) @@ (str_Member :> 1)

\* urchin-blacklist config.cooldownTime (ms)
cooldownTime == 500

MsPerSecond == 1000

----------------------------------------------------------------------------
(* Maps *)

MapGet(m, k, dflt) == IF k \in DOMAIN m THEN m[k] ELSE dflt

MapSet(m, k, v) == [x \in DOMAIN m \cup {k} |-> IF x = k THEN v ELSE m[x]]

MapDelete(m, k) == [x \in DOMAIN m \ {k} |-> m[x]]

EmptyMap == [x \in {} |-> 0]

\* a rounding that drops the started second
Ceil_Floor(a, b) == a \div b

\* Math.ceil(a / b) for b > 0
Ceil(a, b) == -((-a) \div b)

----------------------------------------------------------------------------
(* Cooldown policy *)

\* a lookup that reads a missing key as 0
RankLookup_Zero(table, key) == MapGet(table, key, 0)

\* rankCooldowns[key] of a plain object: undefined when the key is missing
RankLookup(table, key) == MapGet(table, key, undefined)

\* Rank resolution of hypixel-stats isOnCooldown: the cooldown in seconds
ResolveCooldownSeconds(table, guildRank) ==
    LET lc == toLowerCase(guildRank)
        exact == RankLookup(table, guildRank)
        byKeyword ==
            IF guildRank # <<>> /\ exact # undefined /\ exact # 0 THEN exact
            ELSE IF guildRank # <<>> THEN
                IF includes(lc, toLowerCase(str_GuildMaster))
                     \/ includes(lc, str_guildmaster)
                     \/ includes(lc, toLowerCase(str_GM))
                THEN RankLookup(table, str_GuildMaster)
                ELSE IF includes(lc, toLowerCase(str_Leader))
                THEN RankLookup(table, str_Leader)
                ELSE IF includes(lc, toLowerCase(str_Moderator))
                          \/ includes(lc, toLowerCase(str_Mod))
                THEN RankLookup(table, str_Moderator)
                ELSE IF includes(lc, toLowerCase(str_Elite))
                THEN RankLookup(table, str_Elite)
                ELSE IF includes(lc, toLowerCase(str_Member))
                THEN RankLookup(table, str_Member)
                ELSE undefined
            ELSE undefined
    IN IF byKeyword = undefined THEN RankLookup(table, str_Member) ELSE byKeyword

\* Rank resolution of fun-bot isOnCooldown: as above, with the top tier read
\* from the key 'GM'
FunBotResolveCooldownSeconds(table, guildRank) ==
    LET lc == toLowerCase(guildRank)
        exact == RankLookup(table, guildRank)
        byKeyword ==
            IF guildRank # <<>> /\ exact # undefined /\ exact # 0 THEN exact
            ELSE IF guildRank # <<>> THEN
                IF includes(lc, toLowerCase(str_GuildMaster))
                     \/ includes(lc, str_guildmaster)
                     \/ includes(lc, toLowerCase(str_GM))
                THEN RankLookup(table, str_GM)
                ELSE IF includes(lc, toLowerCase(str_Leader))
                THEN RankLookup(table, str_Leader)
                ELSE IF includes(lc, toLowerCase(str_Moderator))
                          \/ includes(lc, toLowerCase(str_Mod))
                THEN RankLookup(table, str_Moderator)
                ELSE IF includes(lc, toLowerCase(str_Elite))
                THEN RankLookup(table, str_Elite)
                ELSE IF includes(lc, toLowerCase(str_Member))
                THEN RankLookup(table, str_Member)
                ELSE undefined
            ELSE undefined
    IN IF byKeyword = undefined THEN RankLookup(table, str_Member) ELSE byKeyword

\* The tail of isOnCooldown: the remaining seconds, or null
RemainingSeconds(cds, cooldownSeconds, playerName, t) ==
    IF cooldownSeconds = 0 THEN null
    ELSE LET cooldownMs == cooldownSeconds * MsPerSecond
             lastRun == MapGet(cds, playerName, 0)
         IN IF lastRun # 0 /\ t - lastRun < cooldownMs
            THEN Ceil(cooldownMs - (t - lastRun), MsPerSecond)
            ELSE null

\* hypixel-stats isOnCooldown(playerName, guildRank, now)
isOnCooldown(cds, playerName, guildRank, t) ==
    RemainingSeconds(cds,
        ResolveCooldownSeconds(rankCooldowns, guildRank), playerName, t)

\* fun-bot isOnCooldown(playerName, guildRank, now)
FunBot_isOnCooldown(cds, playerName, guildRank, t) ==
    RemainingSeconds(cds,
        FunBotResolveCooldownSeconds(rankCooldowns, guildRank), playerName, t)

\* urchin-blacklist isOnCooldown(playerName, now): seconds, 0 when free
Urchin_isOnCooldown(cds, playerName, t) ==
    LET lastRequest == MapGet(cds, playerName, 0)
    IN IF lastRequest # 0 /\ t - lastRequest < cooldownTime
       THEN Ceil(cooldownTime - (t - lastRequest), MsPerSecond)
       ELSE 0

\* a setCooldown that records nothing
setCooldown_Skip(cds, playerName, t) == cds

\* setCooldown(playerName, now)
setCooldown(cds, playerName, t) == MapSet(cds, playerName, t)

\* cleanupOldCooldowns of hypixel-stats: maxAge is fixed at 10 minutes
maxAge == 600000

hypixel_cleanupOldCooldowns(cds, t) ==
    [u \in {x \in DOMAIN cds : ~(t - cds[x] > maxAge)} |-> cds[u]]

\* Math.max over the values of the rank table, in ms (fun-bot)
RECURSIVE MaxOf(_)
MaxOf(S) ==
    IF S = {} THEN 0
    ELSE LET x == CHOOSE y \in S : TRUE
             m == MaxOf(S \ {x})
         IN IF x > m THEN x ELSE m

funbot_cleanupOldCooldowns(cds, t) ==
    LET maxCooldown ==
            MaxOf({rankCooldowns[k] : k \in DOMAIN rankCooldowns})
                * MsPerSecond
    IN [u \in {x \in DOMAIN cds : ~(t - cds[x] > maxCooldown)} |-> cds[u]]

\* the interval callback of urchin-blacklist startCooldownCleanup
urchin_cleanupOldCooldowns(cds, t) ==
    [u \in {x \in DOMAIN cds : ~(t - cds[x] > cooldownTime * 2)} |-> cds[u]]

----------------------------------------------------------------------------
(* Lookup cache (hypixel-stats) *)

\* a key that keeps the identifier's letter case
generateCacheKey_CaseSensitive(type, identifier, extra) ==
    LET baseKey == type \o <<":">> \o identifier
    IN IF extra # <<>> THEN baseKey \o <<":">> \o extra ELSE baseKey

\* generateCacheKey(type, identifier, extra?)
generateCacheKey(type, identifier, extra) ==
    LET baseKey == type \o <<":">> \o toLowerCase(identifier)
    IN IF extra # <<>> THEN baseKey \o <<":">> \o extra ELSE baseKey

\* a read that still serves an entry at the instant it expires
getCachedData_Late(c, key, t) ==
    IF key \notin DOMAIN c THEN [data |-> NoData, cache |-> c]
    ELSE IF t > c[key].expiresAt
         THEN [data |-> NoData, cache |-> MapDelete(c, key)]
         ELSE [data |-> c[key].data, cache |-> c]

\* getCachedData(key) at time t: the data returned (NoData for null) and the
\* cache it leaves
getCachedData(c, key, t) ==
    IF key \notin DOMAIN c THEN [data |-> NoData, cache |-> c]
    ELSE IF t >= c[key].expiresAt
         THEN [data |-> NoData, cache |-> MapDelete(c, key)]
         ELSE [data |-> c[key].data, cache |-> c]

\* a write that keeps an entry already present
setCachedData_KeepFirst(c, key, data, t) ==
    IF key \in DOMAIN c THEN c
    ELSE MapSet(c, key,
            [data |-> data, timestamp |-> t, expiresAt |-> t + cacheExpiryTime])

\* setCachedData(key, data) at time t
setCachedData(c, key, data, t) ==
    MapSet(c, key,
        [data |-> data, timestamp |-> t, expiresAt |-> t + cacheExpiryTime])

\* a sweep that spares an entry at the instant it expires
cleanupExpiredCache_Strict(c, t) ==
    [k \in {x \in DOMAIN c : ~(t > c[x].expiresAt)} |-> c[k]]

\* cleanupExpiredCache() at time t
cleanupExpiredCache(c, t) ==
    [k \in {x \in DOMAIN c : ~(t >= c[x].expiresAt)} |-> c[k]]

----------------------------------------------------------------------------
(* Request keys and handler executions *)

\* `${requester}-${target}-${gameMode}`
RequestKey(requester, target, gameMode) ==
    requester \o <<"-">> \o target \o <<"-">> \o gameMode

\* context.matches?.[1]?.trim() || requester
TargetOf(arg, requester) == IF trim(arg) # <<>> THEN trim(arg) ELSE requester

\* a deduplication check that never finds the key
IsProcessing_Never(pr, key) == FALSE

\* processingRequests.has(requestKey)
IsProcessing(pr, key) == key \in pr

ViewHandler == [command |-> "view", gameMode |-> str_view, skyblock |-> FALSE]

\* the lookup type of a handler's second lookup
SecondType(h) == IF h.skyblock THEN str_skyblock ELSE str_player

NewExec(requester, target, h, key) ==
    [ requester |-> requester, target |-> target, handler |-> h,
      requestKey |-> key, pc |-> "start",
      mojangProfile |-> NoData, data |-> NoData,
      fetched |-> <<>>,        \* endpoints called, in order
      secondFresh |-> FALSE ]  \* second lookup unexpired in the cache at acceptance

\* a chat message: its template, and how many of it were sent
Message(kind, n) == [kind |-> kind, n |-> n]

\* a release that forgets the key
Release_Keep(pr, key) == pr

\* a release that clears the whole set
Release_All(pr, key) == {}

\* processingRequests.delete(requestKey)
Release(pr, key) == pr \ {key}

\* Lines 482 and 569: gameHandler.buildStatsMessage(...) is called. A plain
\* builder returns its message; the networth builder (library loaded, API key
\* configured) runs up to its own await fetchMojangProfile(playerName)
CallBuildStatsMessage(e) ==
    IF e.handler \in FetchingBuilders
    THEN [e EXCEPT !.pc = "awaitBuildMojang", !.fetched = Append(@, str_mojang)]
    ELSE [e EXCEPT !.pc = "awaitMessage"]

\* Lines 463-483 (stats) and 549-570 (SkyBlock): the second lookup, read from
\* the cache at time t or fetched
SecondLookup(e, c, t) ==
    LET key == generateCacheKey(SecondType(e.handler), e.mojangProfile.id, <<>>)
        got == getCachedData(c, key, t)
    IN IF got.data # NoData
       THEN [exec |-> CallBuildStatsMessage([e EXCEPT !.data = got.data]),
             cache |-> got.cache]
       ELSE [exec |-> [e EXCEPT !.pc = "awaitSecond",
                                !.fetched = Append(@, SecondType(e.handler))],
             cache |-> got.cache]

\* a Mojang lookup that never consults the cache
FirstLookup_AlwaysFetch(e, c, t) ==
    [exec |-> [e EXCEPT !.pc = "awaitMojang", !.fetched = Append(@, str_mojang)],
     cache |-> c]

\* Lines 447-461: the Mojang lookup, read from the cache at time t or fetched
FirstLookup(e, c, t) ==
    LET key == generateCacheKey(str_mojang, e.target, <<>>)
        got == getCachedData(c, key, t)
    IN IF got.data # NoData
       THEN SecondLookup([e EXCEPT !.mojangProfile = got.data], got.cache, t)
       ELSE [exec |-> [e EXCEPT !.pc = "awaitMojang",
                                !.fetched = Append(@, str_mojang)],
             cache |-> got.cache]

\* whether the cache holds an unexpired entry for key at time t
Fresh(c, key, t) == key \in DOMAIN c /\ t < c[key].expiresAt

\* the bookkeeping of accepted requests: user -> [at, n]
Accept(acc, u, t) ==
    MapSet(acc, u, [at |-> t, n |-> MapGet(acc, u, [at |-> 0, n |-> 0]).n + 1])

----------------------------------------------------------------------------
(* State machine *)

\* { ...defaultConfig, ...api.config }: the rank table the extension runs with
ConfigOf(e) ==
    CASE e = "hypixel-stats" -> HypixelRankCooldowns
      [] e = "fun-bot" -> FunBotRankCooldowns
      [] OTHER -> EmptyMap

\* analyticsData.totalStats as constructed (README.md lines 131-140)
ZeroTotals ==
    [totalMessages |-> 0, totalJoins |-> 0, totalLeaves |-> 0, totalKicks |-> 0,
     totalPromotions |-> 0, totalDemotions |-> 0, totalLevelUps |-> 0,
     totalQuests |-> 0]

\* lastReportDate: ''
NoDate == -1

\* the staff-management state of an instance as constructed, with no data
\* file to load: zeroed analytics data, nothing logged, saved or sent
NoAnalytics ==
    /\ analyticsData = [dailyStats |-> EmptyMap, lastReportDate |-> NoDate,
                        totalStats |-> ZeroTotals]
    /\ events = 0
    /\ saves = 0
    /\ reports = <<>>
    /\ exitScheduled = FALSE

\* Node's timers: this[field] = setInterval(...) schedules a new interval and
\* stores its handle; st is [intervals, timers, timerIds]
setInterval(st, field) ==
    [intervals |-> MapSet(st.intervals, field, st.timerIds + 1),
     timers |-> st.timers \cup {<<field, st.timerIds + 1>>},
     timerIds |-> st.timerIds + 1]

\* if (this[field]) { clearInterval(this[field]); this[field] = null; } -- the
\* assignment only where the code has it. Clearing a handle whose interval is
\* already cleared does nothing.
clearInterval(st, field, nulled) ==
    IF field \notin DOMAIN st.intervals THEN st
    ELSE [st EXCEPT !.timers = @ \ {<<field, st.intervals[field]>>},
                    !.intervals = IF nulled THEN MapDelete(@, field) ELSE @]

\* the timers of an instance as constructed
NoTimers == [intervals |-> EmptyMap, timers |-> {}, timerIds |-> 0]

\* urchin-blacklist index.ts lines 231-244: startCooldownCleanup
UrchinStart(st) ==
    setInterval(clearInterval(st, "cleanupInterval", FALSE), "cleanupInterval")

\* what init(context, api) does to the timers of an instance of extension e,
\* for a config with enabled (and the API key) on or off, and biWeeklyReports
initTimers(e, st, on, biWeeklyReports) ==
    CASE e = "hypixel-stats" ->
            IF ~on THEN st
            ELSE setInterval(setInterval(st, "cleanupInterval"), "cacheCleanupInterval")
      [] e = "fun-bot" ->
            IF ~on THEN st ELSE setInterval(st, "cleanupInterval")
      [] e = "urchin-blacklist" ->
            IF ~on THEN st ELSE UrchinStart(st)
      [] OTHER ->
            setInterval(IF biWeeklyReports THEN setInterval(st, "reportInterval") ELSE st,
                        "saveInterval")

\* what a teardown hook does to the timers: destroy() (cleanup() in
\* urchin-blacklist), or onDisable()
teardownTimers(e, st, hook) ==
    CASE e = "hypixel-stats" /\ hook = "destroy" ->
            clearInterval(clearInterval(st, "cleanupInterval", TRUE),
                          "cacheCleanupInterval", TRUE)
      [] e \in {"fun-bot", "urchin-blacklist"} /\ hook = "destroy" ->
            clearInterval(st, "cleanupInterval", TRUE)
      [] e = "staff-management" /\ hook = "destroy" ->
            clearInterval(st, "reportInterval", FALSE)
      [] e = "staff-management" /\ hook = "onDisable" ->
            clearInterval(clearInterval(st, "reportInterval", TRUE),
                          "saveInterval", TRUE)
      [] OTHER -> st

\* the timers of the instance, as one record
TimerState == [intervals |-> intervals, timers |-> timers, timerIds |-> timerIds]

\* the timer part of a teardown hook
Teardown(hook) ==
    LET st == teardownTimers(ext, TimerState, hook)
    IN /\ intervals' = st.intervals
       /\ timers' = st.timers
       /\ timerIds' = st.timerIds
       /\ lifecycle' = hook
       /\ UNCHANGED enabled

\* an instance the host has constructed and initialised once, enabled
Initialized ==
    LET st == initTimers(ext, NoTimers, TRUE, TRUE)
    IN /\ intervals = st.intervals
       /\ timers = st.timers
       /\ timerIds = st.timerIds
       /\ lifecycle = "init"
       /\ enabled = TRUE

\* an initialised instance of extension ext that has received no chat line,
\* at time t
StartedAt(t) ==
    /\ now = t
    /\ lines = 0
    /\ cooldowns = EmptyMap
    /\ processingRequests = {}
    /\ cache = EmptyMap
    /\ execs = <<>>
    /\ chat = {}
    /\ dels = 0
    /\ accepted = EmptyMap
    /\ rankCooldowns = ConfigOf(ext)
    /\ pingCount = 0
    /\ lastPingTime = 0
    /\ sent = <<>>
    /\ Initialized
    /\ recentResponses = EmptyMap
    /\ NoAnalytics
    /\ isUpdating = FALSE
    /\ lastUpdate = NoUpdate
    /\ calls = <<>>
    /\ registered = <<>>
    /\ message = <<>>
    /\ invoked = <<>>
    /\ sender = <<>>
    /\ logged = 0
    /\ running = TRUE
    /\ outstanding = 0
    /\ caught = FALSE

Started == StartedAt(StartTime)

Init ==
    /\ ext \in Extensions
    /\ Started

SetExec(i, e) == [execs EXCEPT ![i] = e]

RemoveExec(i) == SubSeq(execs, 1, i - 1) \o SubSeq(execs, i + 1, Len(execs))

\* a step that sends nothing and calls no processingRequests.delete
Silent == chat' = {} /\ dels' = 0 /\ sent' = <<>>

\* The clock advances between synchronous segments
Tick ==
    /\ now + TickMs <= EndTime
    /\ now' = now + TickMs
    /\ Silent
    /\ UNCHANGED <<dispatchVars, trackerVars, staffVars, lifecycleVars, mentionVars, ext, rankCooldowns, pingCount, lastPingTime,
                 lines, cooldowns, processingRequests, cache, execs, accepted>>

\* hypixel-stats: a stats command line reaches the handler made by
\* createStatsHandler / createSkyBlockStatsHandler; the synchronous segment up
\* to the handler's first await
statsCommand(u, guildRank, h, arg) ==
    /\ ext = "hypixel-stats"
    /\ lines < MaxLines
    /\ lines' = lines + 1
    /\ LET requester == u
           target == TargetOf(arg, requester)
           requestKey == RequestKey(requester, target, h.gameMode)
           cooldownRemaining == isOnCooldown(cooldowns, requester, guildRank, now)
       IN IF IsProcessing(processingRequests, requestKey)
          THEN /\ Silent
               /\ UNCHANGED <<cooldowns, processingRequests, cache, execs, accepted>>
          ELSE IF cooldownRemaining # null /\ cooldownRemaining > 0
          THEN /\ chat' = {Message("cooldown", 1)} /\ dels' = 0 /\ sent' = <<>>
               /\ UNCHANGED <<cooldowns, processingRequests, cache, execs, accepted>>
          ELSE LET e0 == [NewExec(requester, target, h, requestKey)
                            EXCEPT !.secondFresh =
                                Fresh(cache,
                                      generateCacheKey(SecondType(h), UuidOf(target), <<>>),
                                      now)]
                   r == FirstLookup(e0, cache, now)
               IN /\ processingRequests' = processingRequests \cup {requestKey}
                  /\ cooldowns' = setCooldown(cooldowns, requester, now)
                  /\ accepted' = Accept(accepted, requester, now)
                  /\ execs' = Append(execs, r.exec)
                  /\ cache' = r.cache
                  /\ Silent
    /\ UNCHANGED <<dispatchVars, trackerVars, staffVars, lifecycleVars, mentionVars, ext, rankCooldowns, pingCount, lastPingTime,
                 now>>

\* a stats command line of user u, carrying u's guild rank
StatsCommand(u, h, arg) == statsCommand(u, GuildRankOf(u), h, arg)

\* the error.status values handleFetchError tells apart
StatusesOf(kind) == IF kind = "fetchError" THEN {404, 429, 500, 400} ELSE {200}

\* which of the execution's names the text of a response interpolates
NamedIn(kind, status) ==
    CASE kind = "stats" -> {"target"}
      [] kind = "fetchError" ->
            IF status # 404 /\ (status = 429 \/ status >= 500)
            THEN {"requester"} ELSE {"requester", "target"}
      [] kind = "error" ->
            IF ext = "hypixel-stats" THEN {"requester", "target"} ELSE {}
      [] kind \in {"authFailed", "rateLimited"} -> {}
      [] OTHER -> {"target"}

\* a response that carries the names of the latest execution
Response_Latest(i, kind, status) ==
    [ index |-> i,
      cached |-> execs[i].fetched = <<>>,
      requester |-> IF "requester" \in NamedIn(kind, status)
                    THEN execs[Len(execs)].requester ELSE <<>>,
      target |-> IF "target" \in NamedIn(kind, status)
                 THEN execs[Len(execs)].target ELSE <<>> ]

\* the response execution i sends: its place among the executions in arrival
\* order, whether it called no endpoint, and the names in the text
Response(i, kind, status) ==
    [ index |-> i,
      cached |-> execs[i].fetched = <<>>,
      requester |-> IF "requester" \in NamedIn(kind, status)
                    THEN execs[i].requester ELSE <<>>,
      target |-> IF "target" \in NamedIn(kind, status)
                 THEN execs[i].target ELSE <<>> ]

\* execution i sends n messages of one kind, calls processingRequests.delete
\* `deletes` times and completes
Complete(i, kind, n, deletes) ==
    /\ chat' = {Message(kind, n)}
    /\ dels' = deletes
    /\ \E status \in StatusesOf(kind) :
          sent' = IF n = 0 THEN <<>> ELSE <<Response(i, kind, status)>>
    /\ processingRequests' = Release(processingRequests, execs[i].requestKey)
    /\ execs' = RemoveExec(i)

\* a fetch-error return that tells the requester nothing
FetchErrorReturn_Silent(i) == Complete(i, "fetchError", 0, 2)

\* handleFetchError, then the delete and early return of lines 457-458, then
\* the finally block
FetchErrorReturn(i) == Complete(i, "fetchError", 1, 2)

\* the catch block, then the finally block
CatchReturn(i) == Complete(i, "error", 1, 1)

\* a failed lookup that caches the error value it got
FailedLookup_Cached(c, key, t) ==
    setCachedData(c, key, [kind |-> "error", id |-> <<>>, asOf |-> t], t)

\* Lines 455-459 and 470-474 (538-543 and 556-561 for SkyBlock): a fetch that
\* answers with an error value returns before setCachedData, and one that
\* throws leaves the try block for the catch block: the cache as it was
FailedLookup(c, key, t) == c

\* await fetchMojangProfile(target) settles
MojangResolve(i, outcome) ==
    /\ ext = "hypixel-stats"
    /\ i \in DOMAIN execs
    /\ execs[i].pc = "awaitMojang"
    /\ \/ /\ outcome = "ok"
          /\ LET e == [execs[i] EXCEPT !.mojangProfile = MojangProfile(execs[i].target, now)]
                 c1 == setCachedData(cache,
                           generateCacheKey(str_mojang, e.target, <<>>),
                           e.mojangProfile, now)
                 r == SecondLookup(e, c1, now)
             IN /\ execs' = SetExec(i, r.exec)
                /\ cache' = r.cache
                /\ Silent
                /\ UNCHANGED processingRequests
       \/ /\ outcome = "error"
          /\ FetchErrorReturn(i)
          /\ cache' = FailedLookup(cache,
                          generateCacheKey(str_mojang, execs[i].target, <<>>), now)
       \/ /\ outcome = "throw"
          /\ CatchReturn(i)
          /\ cache' = FailedLookup(cache,
                          generateCacheKey(str_mojang, execs[i].target, <<>>), now)
    /\ UNCHANGED <<dispatchVars, trackerVars, staffVars, lifecycleVars, mentionVars, ext, rankCooldowns, pingCount, lastPingTime,
                 now, lines, cooldowns, accepted>>

\* await fetchHypixelPlayerProfile / fetchSkyblockProfiles settles; line 482's
\* buildStatsMessage call follows in the same segment
SecondResolve(i, outcome) ==
    /\ ext = "hypixel-stats"
    /\ i \in DOMAIN execs
    /\ execs[i].pc = "awaitSecond"
    /\ \/ /\ outcome = "ok"
          /\ LET e == execs[i]
                 type == SecondType(e.handler)
                 d == ProviderData(type, e.mojangProfile.id, now)
             IN /\ cache' = setCachedData(cache,
                               generateCacheKey(type, e.mojangProfile.id, <<>>), d, now)
                /\ execs' = SetExec(i, CallBuildStatsMessage([e EXCEPT !.data = d]))
                /\ Silent
                /\ UNCHANGED processingRequests
       \/ /\ outcome = "error"
          /\ FetchErrorReturn(i)
          /\ cache' = FailedLookup(cache,
                          generateCacheKey(SecondType(execs[i].handler),
                                           execs[i].mojangProfile.id, <<>>), now)
       \/ /\ outcome = "throw"
          /\ CatchReturn(i)
          /\ cache' = FailedLookup(cache,
                          generateCacheKey(SecondType(execs[i].handler),
                                           execs[i].mojangProfile.id, <<>>), now)
    /\ UNCHANGED <<dispatchVars, trackerVars, staffVars, lifecycleVars, mentionVars, ext, rankCooldowns, pingCount, lastPingTime,
                 now, lines, cooldowns, accepted>>

\* await Promise.resolve(statsMessageResult) settles: the stats message is
\* sent, or buildStatsMessage threw or rejected
MessageResolve(i, outcome) ==
    /\ ext = "hypixel-stats"
    /\ i \in DOMAIN execs
    /\ execs[i].pc = "awaitMessage"
    /\ \/ /\ outcome = "ok"
          /\ Complete(i, "stats", 1, 1)
       \/ /\ outcome = "throw"
          /\ CatchReturn(i)
    /\ UNCHANGED <<dispatchVars, trackerVars, staffVars, lifecycleVars, mentionVars, ext, rankCooldowns, pingCount, lastPingTime,
                 now, lines, cooldowns, cache, accepted>>

\* networth.ts line 34: the builder's own fetchMojangProfile settles; on
\* success its fetchSkyblockProfiles starts, otherwise the builder returns a
\* message text
BuildMojangResolve(i, outcome) ==
    /\ ext = "hypixel-stats"
    /\ i \in DOMAIN execs
    /\ execs[i].pc = "awaitBuildMojang"
    /\ \/ /\ outcome = "ok"
          /\ execs' = SetExec(i, [execs[i] EXCEPT
                                    !.pc = "awaitBuildProfiles",
                                    !.fetched = Append(@, str_skyblock)])
       \/ /\ outcome \in {"error", "throw"}
          /\ execs' = SetExec(i, [execs[i] EXCEPT !.pc = "awaitMessage"])
    /\ Silent
    /\ UNCHANGED <<dispatchVars, trackerVars, staffVars, lifecycleVars, mentionVars, ext, rankCooldowns, pingCount, lastPingTime,
                 now, lines, cooldowns, processingRequests, cache, accepted>>

\* networth.ts line 40: the builder's own fetchSkyblockProfiles settles; on
\* success getNetworth() starts, otherwise the builder returns a message text
BuildProfilesResolve(i, outcome) ==
    /\ ext = "hypixel-stats"
    /\ i \in DOMAIN execs
    /\ execs[i].pc = "awaitBuildProfiles"
    /\ \/ /\ outcome = "ok"
          /\ execs' = SetExec(i, [execs[i] EXCEPT !.pc = "awaitNetworth"])
       \/ /\ outcome \in {"error", "throw"}
          /\ execs' = SetExec(i, [execs[i] EXCEPT !.pc = "awaitMessage"])
    /\ Silent
    /\ UNCHANGED <<dispatchVars, trackerVars, staffVars, lifecycleVars, mentionVars, ext, rankCooldowns, pingCount, lastPingTime,
                 now, lines, cooldowns, processingRequests, cache, accepted>>

\* networth.ts line 52: getNetworth() settles; the builder returns its text
\* (the result line, or the text of its own catch block)
BuildNetworthResolve(i) ==
    /\ ext = "hypixel-stats"
    /\ i \in DOMAIN execs
    /\ execs[i].pc = "awaitNetworth"
    /\ execs' = SetExec(i, [execs[i] EXCEPT !.pc = "awaitMessage"])
    /\ Silent
    /\ UNCHANGED <<dispatchVars, trackerVars, staffVars, lifecycleVars, mentionVars, ext, rankCooldowns, pingCount, lastPingTime,
                 now, lines, cooldowns, processingRequests, cache, accepted>>

\* setInterval callback of startCacheCleanup
CacheSweep ==
    /\ ext = "hypixel-stats"
    /\ \E t \in timers : t[1] = "cacheCleanupInterval"
    /\ cache' = cleanupExpiredCache(cache, now)
    /\ Silent
    /\ UNCHANGED <<dispatchVars, trackerVars, staffVars, lifecycleVars, mentionVars, ext, rankCooldowns, pingCount, lastPingTime,
                 now, lines, cooldowns, processingRequests, execs, accepted>>

\* setInterval callback of startCooldownCleanup, per extension
CooldownSweep ==
    /\ \E t \in timers : t[1] = "cleanupInterval"
    /\ cooldowns' =
          CASE ext = "hypixel-stats" -> hypixel_cleanupOldCooldowns(cooldowns, now)
            [] ext = "fun-bot" -> funbot_cleanupOldCooldowns(cooldowns, now)
            [] OTHER -> urchin_cleanupOldCooldowns(cooldowns, now)
    /\ Silent
    /\ UNCHANGED <<dispatchVars, trackerVars, staffVars, lifecycleVars, mentionVars, ext, rankCooldowns, pingCount, lastPingTime,
                 now, lines, processingRequests, cache, execs, accepted>>

----------------------------------------------------------------------------
(* urchin-blacklist: handleViewCommand *)

str_urchin == <<"u","r","c","h","i","n">>

\* a `!view` line reaches handleViewCommand; the synchronous segment up to the
\* await of the Mojang fetch
ViewCommand(u, arg) ==
    /\ ext = "urchin-blacklist"
    /\ lines < MaxLines
    /\ lines' = lines + 1
    /\ LET requester == u
           target == TargetOf(arg, requester)
           requestKey == RequestKey(requester, target, str_view)
           cooldownRemaining == Urchin_isOnCooldown(cooldowns, requester, now)
       IN IF IsProcessing(processingRequests, requestKey)
          THEN /\ Silent
               /\ UNCHANGED <<cooldowns, processingRequests, execs, accepted>>
          ELSE IF cooldownRemaining > 0
          THEN /\ chat' = {Message("cooldown", 1)} /\ dels' = 0 /\ sent' = <<>>
               /\ UNCHANGED <<cooldowns, processingRequests, execs, accepted>>
          ELSE /\ processingRequests' = processingRequests \cup {requestKey}
               /\ cooldowns' = setCooldown(cooldowns, requester, now)
               /\ accepted' = Accept(accepted, requester, now)
               /\ execs' = Append(execs,
                     [NewExec(requester, target, ViewHandler, requestKey)
                        EXCEPT !.pc = "awaitUuid", !.fetched = <<str_mojang>>])
               /\ Silent
    /\ UNCHANGED <<dispatchVars, trackerVars, staffVars, lifecycleVars, mentionVars, ext, rankCooldowns, pingCount, lastPingTime,
                 now, cache>>

\* execution i goes on to its next await
ViewAdvance(i, e) ==
    /\ execs' = SetExec(i, e)
    /\ Silent
    /\ UNCHANGED processingRequests

\* lines 121-143: the Mojang fetch settles
UuidResolve(i, outcome) ==
    /\ ext = "urchin-blacklist"
    /\ i \in DOMAIN execs
    /\ execs[i].pc = "awaitUuid"
    /\ \/ /\ outcome = "ok"
          /\ ViewAdvance(i, [execs[i] EXCEPT !.pc = "awaitUuidJson"])
       \/ /\ outcome = "notFound"        \* status 204 or 404
          /\ Complete(i, "notValid", 1, 1)
       \/ /\ outcome \in {"notOk", "reject"}   \* thrown, caught at line 139
          /\ Complete(i, "lookupFailed", 1, 1)
    /\ UNCHANGED <<dispatchVars, trackerVars, staffVars, lifecycleVars, mentionVars, ext, rankCooldowns, pingCount, lastPingTime,
                 now, lines, cooldowns, cache, accepted>>

\* line 137: uuidResponse.json() settles; on success the Urchin fetch starts
UuidJsonResolve(i, outcome) ==
    /\ ext = "urchin-blacklist"
    /\ i \in DOMAIN execs
    /\ execs[i].pc = "awaitUuidJson"
    /\ \/ /\ outcome = "ok"
          /\ ViewAdvance(i, [execs[i] EXCEPT
                                !.pc = "awaitUrchin",
                                !.mojangProfile = MojangProfile(execs[i].target, now),
                                !.fetched = Append(@, str_urchin)])
       \/ /\ outcome = "reject"
          /\ Complete(i, "lookupFailed", 1, 1)
    /\ UNCHANGED <<dispatchVars, trackerVars, staffVars, lifecycleVars, mentionVars, ext, rankCooldowns, pingCount, lastPingTime,
                 now, lines, cooldowns, cache, accepted>>

\* lines 149-174: the Urchin fetch settles
UrchinResolve(i, outcome) ==
    /\ ext = "urchin-blacklist"
    /\ i \in DOMAIN execs
    /\ execs[i].pc = "awaitUrchin"
    /\ \/ /\ outcome = "ok"
          /\ ViewAdvance(i, [execs[i] EXCEPT !.pc = "awaitUrchinJson"])
       \/ /\ outcome = "404"
          /\ Complete(i, "noTags", 1, 1)
       \/ /\ outcome = "401"
          /\ Complete(i, "authFailed", 1, 1)
       \/ /\ outcome = "429"
          /\ Complete(i, "rateLimited", 1, 1)
       \/ /\ outcome \in {"notOk", "reject"}   \* thrown, caught at line 193
          /\ Complete(i, "blacklistFailed", 1, 1)
    /\ UNCHANGED <<dispatchVars, trackerVars, staffVars, lifecycleVars, mentionVars, ext, rankCooldowns, pingCount, lastPingTime,
                 now, lines, cooldowns, cache, accepted>>

\* lines 176-196: urchinResponse.json() settles with n tags
UrchinJsonResolve(i, outcome, n) ==
    /\ ext = "urchin-blacklist"
    /\ i \in DOMAIN execs
    /\ execs[i].pc = "awaitUrchinJson"
    /\ \/ /\ outcome = "ok"
          /\ IF n = 0 THEN Complete(i, "noTags", 1, 1)
                      ELSE Complete(i, "tag", n, 1)
       \/ /\ outcome = "reject"
          /\ n = 0
          /\ Complete(i, "blacklistFailed", 1, 1)
    /\ UNCHANGED <<dispatchVars, trackerVars, staffVars, lifecycleVars, mentionVars, ext, rankCooldowns, pingCount, lastPingTime,
                 now, lines, cooldowns, cache, accepted>>

----------------------------------------------------------------------------
(* fun-bot: sendResponse *)

Channels == {"Guild", "Officer", "From", "Party", "Other"}

\* sendResponse(context, message, api) for a line of user u whose
\* context.guildRank is guildRank
sendResponse(u, guildRank, channel) ==
    /\ ext = "fun-bot"
    /\ lines < MaxLines
    /\ lines' = lines + 1
    /\ LET cooldownRemaining ==
               FunBot_isOnCooldown(cooldowns, u, guildRank, now)
           sends == channel \in {"Guild", "Officer", "From", "Party"}
           kind == IF channel \in {"Guild", "Officer"} THEN "guild"
                   ELSE IF channel = "From" THEN "private" ELSE "party"
       IN IF ~enabled \/ (cooldownRemaining # null /\ cooldownRemaining > 0)
          THEN /\ Silent
               /\ UNCHANGED <<cooldowns, accepted>>
          ELSE /\ cooldowns' = setCooldown(cooldowns, u, now)
               /\ accepted' = Accept(accepted, u, now)
               /\ chat' = IF sends THEN {Message(kind, 1)} ELSE {}
               /\ dels' = 0
               /\ sent' = <<>>
    /\ UNCHANGED <<dispatchVars, trackerVars, staffVars, lifecycleVars, ext, rankCooldowns, now, processingRequests,
                 cache, execs>>

\* a fun-bot handler other than handlePing answers a line: it calls
\* sendResponse and touches no other state
SendResponse(u, channel) ==
    /\ sendResponse(u, GuildRankOf(u), channel)
    /\ UNCHANGED <<pingCount, lastPingTime, mentionVars>>

\* handlePing: the ping counter is updated, then sendResponse is called
HandlePing(u, channel) ==
    /\ pingCount' = IF now - lastPingTime < pingWindow THEN pingCount + 1 ELSE 1
    /\ lastPingTime' = now
    /\ sendResponse(u, GuildRankOf(u), channel)
    /\ UNCHANGED mentionVars

\* onConfigChange(newConfig, oldConfig, api) of fun-bot (part_003 lines
\* 186-189), for a new config with enabled on or off
onConfigChange(on) ==
    /\ ext = "fun-bot"
    /\ enabled' = on
    /\ Silent
    /\ UNCHANGED <<dispatchVars, trackerVars, staffVars, mentionVars, intervals, timers, timerIds,
                   lifecycle, ext, rankCooldowns, pingCount, lastPingTime, now, lines,
                   cooldowns, processingRequests, cache, execs, accepted>>

\* fun-bot alone, with its configuration changed while it runs
ResponseInit == Init /\ ext = "fun-bot"

ResponseNext ==
    \/ Tick
    \/ \E u \in Users, ch \in Channels : SendResponse(u, ch)
    \/ \E u \in Users, ch \in Channels : HandlePing(u, ch)
    \/ CooldownSweep
    \/ \E on \in BOOLEAN : onConfigChange(on)

ResponseSpec == ResponseInit /\ [][ResponseNext]_vars

----------------------------------------------------------------------------

Next ==
    \/ Tick
    \/ \E l \in StatsLines : StatsCommand(l[1], l[2], l[3])
    \/ \E i \in 1..MaxLines, o \in {"ok", "error", "throw"} : MojangResolve(i, o)
    \/ \E i \in 1..MaxLines, o \in {"ok", "error", "throw"} : SecondResolve(i, o)
    \/ \E i \in 1..MaxLines, o \in {"ok", "throw"} : MessageResolve(i, o)
    \/ CacheSweep
    \/ CooldownSweep
    \/ \E l \in ViewLines : ViewCommand(l[1], l[2])
    \/ \E i \in 1..MaxLines, o \in {"ok", "notFound", "notOk", "reject"} :
          UuidResolve(i, o)
    \/ \E i \in 1..MaxLines, o \in {"ok", "reject"} : UuidJsonResolve(i, o)
    \/ \E i \in 1..MaxLines, o \in {"ok", "404", "401", "429", "notOk", "reject"} :
          UrchinResolve(i, o)
    \/ \E i \in 1..MaxLines, o \in {"ok", "reject"}, n \in 0..MaxTags :
          UrchinJsonResolve(i, o, n)
    \/ \E u \in Users, ch \in Channels : SendResponse(u, ch)
    \/ \E u \in Users, ch \in Channels : HandlePing(u, ch)

Spec == Init /\ [][Next]_vars

\* Every awaited fetch, body read or message promise of an in-flight execution
\* settles: the event loop runs the continuation of a settled promise
Settle ==
    \/ \E i \in 1..MaxLines, o \in {"ok", "error", "throw"} : MojangResolve(i, o)
    \/ \E i \in 1..MaxLines, o \in {"ok", "error", "throw"} : SecondResolve(i, o)
    \/ \E i \in 1..MaxLines, o \in {"ok", "throw"} : MessageResolve(i, o)
    \/ \E i \in 1..MaxLines, o \in {"ok", "notFound", "notOk", "reject"} :
          UuidResolve(i, o)
    \/ \E i \in 1..MaxLines, o \in {"ok", "reject"} : UuidJsonResolve(i, o)
    \/ \E i \in 1..MaxLines, o \in {"ok", "404", "401", "429", "notOk", "reject"} :
          UrchinResolve(i, o)
    \/ \E i \in 1..MaxLines, o \in {"ok", "reject"}, n \in 0..MaxTags :
          UrchinJsonResolve(i, o, n)

LiveSpec == Spec /\ WF_vars(Settle)

----------------------------------------------------------------------------
(* The SkyBlock handlers with the networth command *)

NetworthLines ==
    {<<Alice, skyblockNetworthHandler, Steve>>,
     <<Bob, skyblockCollectionsHandler, steve>>}

NetworthInit == Init /\ ext = "hypixel-stats"

NetworthNext ==
    \/ Tick
    \/ \E l \in NetworthLines : StatsCommand(l[1], l[2], l[3])
    \/ \E i \in 1..MaxLines, o \in {"ok", "error", "throw"} : MojangResolve(i, o)
    \/ \E i \in 1..MaxLines, o \in {"ok", "error", "throw"} : SecondResolve(i, o)
    \/ \E i \in 1..MaxLines, o \in {"ok", "error", "throw"} :
          BuildMojangResolve(i, o)
    \/ \E i \in 1..MaxLines, o \in {"ok", "error", "throw"} :
          BuildProfilesResolve(i, o)
    \/ \E i \in 1..MaxLines : BuildNetworthResolve(i)
    \/ \E i \in 1..MaxLines, o \in {"ok", "throw"} : MessageResolve(i, o)

NetworthSpec == NetworthInit /\ [][NetworthNext]_vars

\* The cache as Bob's `!collections steve`, served at StartTime, leaves it
WarmCache ==
    LET profile == MojangProfile(steve, StartTime)
    IN setCachedData(
          setCachedData(EmptyMap, generateCacheKey(str_mojang, steve, <<>>),
                        profile, StartTime),
          generateCacheKey(str_skyblock, profile.id, <<>>),
          ProviderData(str_skyblock, profile.id, StartTime), StartTime)

\* hypixel-stats after that request: its cache entries and Bob's cooldown
\* record are in place, no execution is running
OrderInit ==
    /\ ext = "hypixel-stats"
    /\ now = StartTime
    /\ lines = 0
    /\ cooldowns = setCooldown(EmptyMap, Bob, StartTime)
    /\ processingRequests = {}
    /\ cache = WarmCache
    /\ execs = <<>>
    /\ chat = {}
    /\ dels = 0
    /\ accepted = Accept(EmptyMap, Bob, StartTime)
    /\ rankCooldowns = ConfigOf(ext)
    /\ pingCount = 0
    /\ lastPingTime = 0
    /\ sent = <<>>
    /\ Initialized
    /\ recentResponses = EmptyMap
    /\ NoAnalytics
    /\ isUpdating = FALSE
    /\ lastUpdate = NoUpdate
    /\ calls = <<>>
    /\ registered = <<>>
    /\ message = <<>>
    /\ invoked = <<>>
    /\ sender = <<>>
    /\ logged = 0
    /\ running = TRUE
    /\ outstanding = 0
    /\ caught = FALSE

OrderNext ==
    \/ Tick
    \/ \E l \in StatsLines : StatsCommand(l[1], l[2], l[3])
    \/ \E i \in 1..MaxLines, o \in {"ok", "error", "throw"} : MojangResolve(i, o)
    \/ \E i \in 1..MaxLines, o \in {"ok", "error", "throw"} : SecondResolve(i, o)
    \/ \E i \in 1..MaxLines, o \in {"ok", "throw"} : MessageResolve(i, o)
    \/ CacheSweep

OrderSpec == OrderInit /\ [][OrderNext]_vars

\* Bob (whose rank has no cooldown) asks for two kinds of Duels stats of
\* Steve, and for the collections
DuelsLines ==
    {<<Bob, duelsHandler, Steve>>, <<Bob, uhcDuelsHandler, Steve>>,
     <<Bob, skyblockCollectionsHandler, Steve>>}

DuelsInit == Init /\ ext = "hypixel-stats"

DuelsNext ==
    \/ Tick
    \/ \E l \in DuelsLines : StatsCommand(l[1], l[2], l[3])
    \/ \E i \in 1..MaxLines, o \in {"ok", "error", "throw"} : MojangResolve(i, o)
    \/ \E i \in 1..MaxLines, o \in {"ok", "error", "throw"} : SecondResolve(i, o)
    \/ \E i \in 1..MaxLines, o \in {"ok", "throw"} : MessageResolve(i, o)

DuelsSpec == DuelsInit /\ [][DuelsNext]_vars

\* a configuration whose Member cooldown is fifteen minutes
LongMemberCooldown == 900

\* config.guildRankCooldowns as the operator may configure it: the tables
\* above, or their Member tier set to fifteen minutes
SweepTablesOf(e) ==
    IF ConfigOf(e) = EmptyMap THEN {EmptyMap}
    ELSE {ConfigOf(e), MapSet(ConfigOf(e), str_Member, LongMemberCooldown)}

SweepInit ==
    /\ ext \in Extensions
    /\ rankCooldowns \in SweepTablesOf(ext)
    /\ now = StartTime
    /\ lines = 0
    /\ cooldowns = EmptyMap
    /\ processingRequests = {}
    /\ cache = EmptyMap
    /\ execs = <<>>
    /\ chat = {}
    /\ dels = 0
    /\ accepted = EmptyMap
    /\ pingCount = 0
    /\ lastPingTime = 0
    /\ sent = <<>>
    /\ Initialized
    /\ recentResponses = EmptyMap
    /\ NoAnalytics
    /\ isUpdating = FALSE
    /\ lastUpdate = NoUpdate
    /\ calls = <<>>
    /\ registered = <<>>
    /\ message = <<>>
    /\ invoked = <<>>
    /\ sender = <<>>
    /\ logged = 0
    /\ running = TRUE
    /\ outstanding = 0
    /\ caught = FALSE

\* the bot idles for ten minutes and a tick
LongTick ==
    /\ now <= EndTime
    /\ now' = now + maxAge + TickMs
    /\ Silent
    /\ UNCHANGED <<dispatchVars, trackerVars, staffVars, lifecycleVars, mentionVars, ext, rankCooldowns, pingCount, lastPingTime,
                 lines, cooldowns, processingRequests, cache, execs, accepted>>

SweepNext == Next \/ LongTick

SweepSpec == SweepInit /\ [][SweepNext]_vars

\* destroy() of hypixel-stats: both intervals are cleared, then the cooldowns,
\* the cache and the in-flight set; running handlers are left alone
destroy ==
    /\ ext = "hypixel-stats"
    /\ Teardown("destroy")
    /\ cooldowns' = EmptyMap
    /\ cache' = EmptyMap
    /\ processingRequests' = {}
    /\ Silent
    /\ UNCHANGED <<dispatchVars, trackerVars, staffVars, mentionVars, ext, rankCooldowns, pingCount,
                   lastPingTime, now, lines, execs, accepted>>

DestroyInit == Init /\ ext = "hypixel-stats"

\* the host dispatches no chat line to a destroyed extension
DestroyNext ==
    \/ Tick
    \/ lifecycle = "init" /\ \E l \in StatsLines : StatsCommand(l[1], l[2], l[3])
    \/ \E i \in 1..MaxLines, o \in {"ok", "error", "throw"} : MojangResolve(i, o)
    \/ \E i \in 1..MaxLines, o \in {"ok", "error", "throw"} : SecondResolve(i, o)
    \/ \E i \in 1..MaxLines, o \in {"ok", "throw"} : MessageResolve(i, o)
    \/ CacheSweep
    \/ CooldownSweep
    \/ destroy

DestroySpec == DestroyInit /\ [][DestroyNext]_vars

----------------------------------------------------------------------------
(* Lifecycle hooks *)

\* init(context, api), for a config with enabled on or off, and biWeeklyReports
init(on, biWeeklyReports) ==
    /\ timerIds < MaxTimers
    /\ enabled' = on
    /\ LET st == initTimers(ext, TimerState, on, biWeeklyReports)
       IN /\ intervals' = st.intervals
          /\ timers' = st.timers
          /\ timerIds' = st.timerIds
    /\ lifecycle' = "init"
    /\ Silent
    /\ UNCHANGED <<dispatchVars, trackerVars, staffVars, mentionVars, ext, rankCooldowns, pingCount,
                   lastPingTime, now, lines, cooldowns, processingRequests,
                   cache, execs, accepted>>

\* destroy() of fun-bot (part_003 lines 132-143) and of staff-management
\* (README.md lines 191-201), cleanup() of urchin-blacklist (lines 256-263)
destroyExtension ==
    /\ ext # "hypixel-stats"
    /\ Teardown("destroy")
    /\ cooldowns' = IF ext = "staff-management" THEN cooldowns ELSE EmptyMap
    /\ processingRequests' = IF ext = "urchin-blacklist" THEN {} ELSE processingRequests
    /\ Silent
    /\ UNCHANGED <<dispatchVars, trackerVars, staffVars, mentionVars, ext, rankCooldowns, pingCount,
                   lastPingTime, now, lines, cache, execs, accepted>>

\* onDisable() of staff-management (README.md lines 207-228) and of fun-bot
\* (part_003 lines 149-151, which only logs)
onDisable ==
    /\ ext \in {"staff-management", "fun-bot"}
    /\ Teardown("onDisable")
    /\ Silent
    /\ UNCHANGED <<dispatchVars, trackerVars, staffVars, mentionVars, ext, rankCooldowns, pingCount,
                   lastPingTime, now, lines, cooldowns, processingRequests,
                   cache, execs, accepted>>

\* an instance as constructed: no hook called yet
LifecycleInit ==
    /\ ext \in Extensions \cup {"staff-management"}
    /\ now = StartTime
    /\ lines = 0
    /\ cooldowns = EmptyMap
    /\ processingRequests = {}
    /\ cache = EmptyMap
    /\ execs = <<>>
    /\ chat = {}
    /\ dels = 0
    /\ accepted = EmptyMap
    /\ rankCooldowns = ConfigOf(ext)
    /\ pingCount = 0
    /\ lastPingTime = 0
    /\ sent = <<>>
    /\ intervals = NoTimers.intervals
    /\ timers = NoTimers.timers
    /\ timerIds = NoTimers.timerIds
    /\ lifecycle = "constructed"
    /\ enabled = TRUE
    /\ recentResponses = EmptyMap
    /\ NoAnalytics
    /\ isUpdating = FALSE
    /\ lastUpdate = NoUpdate
    /\ calls = <<>>
    /\ registered = <<>>
    /\ message = <<>>
    /\ invoked = <<>>
    /\ sender = <<>>
    /\ logged = 0
    /\ running = TRUE
    /\ outstanding = 0
    /\ caught = FALSE

LifecycleNext ==
    \/ \E on \in BOOLEAN, biWeeklyReports \in BOOLEAN : init(on, biWeeklyReports)
    \/ destroy
    \/ destroyExtension
    \/ onDisable

LifecycleSpec == LifecycleInit /\ [][LifecycleNext]_vars

----------------------------------------------------------------------------
(* OnlinePlayersTracker *)

\* handler state of the extensions, untouched by the tracker
extensionVars == <<ext, now, lines, cooldowns, processingRequests, cache, execs,
                   chat, dels, accepted, rankCooldowns, pingCount, lastPingTime,
                   sent, lifecycleVars, mentionVars, staffVars>>

\* the promise a call made while isUpdating returns: resolved with lastUpdate
BusyCall(data) ==
    [ collector |-> FALSE, boundReceived |-> 0, currentGuildRank |-> FALSE,
      players |-> 0, listening |-> FALSE, timer |-> FALSE,
      resolved |-> TRUE, by |-> "busy", value |-> data ]

\* the promise, the listener's variables and the timer of a collecting call
NewCollector ==
    [ collector |-> TRUE, boundReceived |-> 0, currentGuildRank |-> FALSE,
      players |-> 0, listening |-> TRUE, timer |-> TRUE,
      resolved |-> FALSE, by |-> "none", value |-> NoUpdate ]

\* updateOnlinePlayers(mineflayerBot) up to its return
updateOnlinePlayers ==
    /\ Len(calls) < MaxCalls
    /\ IF isUpdating
       THEN /\ calls' = Append(calls, BusyCall(lastUpdate))
            /\ UNCHANGED <<isUpdating, lastUpdate>>
       ELSE /\ isUpdating' = TRUE
            /\ calls' = Append(calls, NewCollector)
            /\ UNCHANGED lastUpdate
    /\ UNCHANGED <<extensionVars, dispatchVars>>

\* the kinds of line the server prints: the boundary of dashes, a rank
\* heading, a line of online player names, any other line
MessageKinds == {"bound", "rank", "player", "other"}

\* a listener that stays registered when its collector completes
listener_Stays(c, kind) ==
    LET b == IF kind = "bound" THEN calls[c].boundReceived + 1
             ELSE calls[c].boundReceived
        p == IF calls[c].currentGuildRank /\ kind = "player"
             THEN calls[c].players + 1 ELSE calls[c].players
    IN IF b = 0 THEN calls[c]
       ELSE IF kind = "rank"
       THEN [calls[c] EXCEPT !.currentGuildRank = TRUE]
       ELSE IF b >= 2
       THEN [calls[c] EXCEPT !.boundReceived = b, !.players = p,
                             !.resolved = TRUE, !.by = "bound",
                             !.value = [from |-> c, players |-> p]]
       ELSE [calls[c] EXCEPT !.boundReceived = b, !.players = p]

\* the listener of collector c receives one line
listener(c, kind) ==
    LET b == IF kind = "bound" THEN calls[c].boundReceived + 1
             ELSE calls[c].boundReceived
        p == IF calls[c].currentGuildRank /\ kind = "player"
             THEN calls[c].players + 1 ELSE calls[c].players
    IN IF b = 0 THEN calls[c]
       ELSE IF kind = "rank"
       THEN [calls[c] EXCEPT !.currentGuildRank = TRUE]
       ELSE IF b >= 2
       THEN [calls[c] EXCEPT !.boundReceived = b, !.players = p,
                             !.listening = FALSE, !.resolved = TRUE,
                             !.by = "bound",
                             !.value = [from |-> c, players |-> p]]
       ELSE [calls[c] EXCEPT !.boundReceived = b, !.players = p]

\* the bot emits 'messagestr': every registered listener receives the line,
\* in the order of registration
MessageStr(kind) ==
    /\ \E c \in DOMAIN calls : calls[c].listening
    /\ kind = "player" =>
          \A c \in DOMAIN calls :
             (calls[c].listening /\ calls[c].currentGuildRank)
                => calls[c].players < MaxPlayers
    /\ calls' = [c \in DOMAIN calls |->
                   IF calls[c].listening THEN listener(c, kind) ELSE calls[c]]
    /\ LET done == {c \in DOMAIN calls : ~calls[c].resolved /\ calls'[c].resolved}
       IN IF done = {}
          THEN UNCHANGED <<isUpdating, lastUpdate>>
          ELSE /\ isUpdating' = FALSE
               /\ lastUpdate' =
                     calls'[CHOOSE c \in done : \A d \in done : d <= c].value
    /\ UNCHANGED <<extensionVars, dispatchVars>>

\* a timer that goes off without resolving the promise
TimerFires_Forgetful(c) ==
    /\ c \in DOMAIN calls
    /\ calls[c].timer
    /\ \A d \in 1..(c - 1) : ~calls[d].timer
    /\ calls' = [calls EXCEPT ![c] = [calls[c] EXCEPT !.timer = FALSE,
                                                      !.listening = FALSE]]
    /\ isUpdating' = FALSE
    /\ UNCHANGED <<lastUpdate, extensionVars, dispatchVars>>

\* the 5-second timer of collector c goes off (timers of equal delay go off
\* in the order they were set); resolve() of a resolved promise does nothing
TimerFires(c) ==
    /\ c \in DOMAIN calls
    /\ calls[c].timer
    /\ \A d \in 1..(c - 1) : ~calls[d].timer
    /\ calls' = [calls EXCEPT ![c] =
                   IF calls[c].resolved
                   THEN [calls[c] EXCEPT !.timer = FALSE, !.listening = FALSE]
                   ELSE [calls[c] EXCEPT !.timer = FALSE, !.listening = FALSE,
                                         !.resolved = TRUE, !.by = "timeout",
                                         !.value = lastUpdate]]
    /\ isUpdating' = FALSE
    /\ UNCHANGED <<lastUpdate, extensionVars, dispatchVars>>

TrackerInit == Init /\ ext = "hypixel-stats"

TrackerNext ==
    \/ updateOnlinePlayers
    \/ \E kind \in MessageKinds : MessageStr(kind)
    \/ \E c \in 1..MaxCalls : TimerFires(c)

TrackerSpec == TrackerInit /\ [][TrackerNext]_vars

\* a timer that was set goes off
TrackerLiveSpec == TrackerSpec /\ WF_vars(\E c \in 1..MaxCalls : TimerFires(c))

----------------------------------------------------------------------------
(* Pattern registry and dispatcher *)

Digits == <<"0","1","2","3","4","5","6","7","8","9">>

\* \w of a regular expression
IsWordChar(c) ==
    \/ \E i \in DOMAIN Upper : Upper[i] = c \/ Lower[i] = c
    \/ \E i \in DOMAIN Digits : Digits[i] = c
    \/ c = "_"

\* \s of a regular expression (the lines of the model hold spaces only)
IsSpace(c) == c = " "

\* ^text under the i flag
StartsWithIgnoreCase(s, text) ==
    /\ Len(s) >= Len(text)
    /\ toLowerCase(SubSeq(s, 1, Len(text))) = toLowerCase(text)

\* \b at the position after the n-th character of s, which is a word character
BoundaryAfter(s, n) == n = Len(s) \/ ~IsWordChar(s[n + 1])

\* the number of leading characters of s that satisfy \s
RECURSIVE LeadingSpaces(_)
LeadingSpaces(s) ==
    IF s # <<>> /\ IsSpace(Head(s)) THEN 1 + LeadingSpaces(Tail(s)) ELSE 0

\* the number of leading word characters of s
RECURSIVE LeadingWordChars(_)
LeadingWordChars(s) ==
    IF s # <<>> /\ IsWordChar(Head(s)) THEN 1 + LeadingWordChars(Tail(s)) ELSE 0

\* /^text\b/i
MatchesWord(s, text) ==
    StartsWithIgnoreCase(s, text) /\ BoundaryAfter(s, Len(text))

\* /^text$/i
MatchesExact(s, text) == toLowerCase(s) = toLowerCase(text)

\* /^text(?:\s+(.+))?$/i
MatchesWithArgument(s, text) ==
    \/ MatchesExact(s, text)
    \/ /\ StartsWithIgnoreCase(s, text)
       /\ LET rest == SubSeq(s, Len(text) + 1, Len(s))
          IN rest # <<>> /\ IsSpace(Head(rest)) /\ Len(rest) >= 2

\* /^text(?:\s+(\w+))?\b/i
MatchesWithWord(s, text) ==
    /\ StartsWithIgnoreCase(s, text)
    /\ LET rest == SubSeq(s, Len(text) + 1, Len(s))
           k == LeadingSpaces(rest)
           w == LeadingWordChars(SubSeq(rest, k + 1, Len(rest)))
       IN \/ k >= 1 /\ w >= 1     \* the group matched: \b follows its last letter
          \/ BoundaryAfter(s, Len(text))

\* /^text\s+(alt1|alt2)\b/i
MatchesSubcommand(s, text, alts) ==
    /\ StartsWithIgnoreCase(s, text)
    /\ LET rest == SubSeq(s, Len(text) + 1, Len(s))
           k == LeadingSpaces(rest)
           word == SubSeq(rest, k + 1, Len(rest))
       IN k >= 1 /\ \E a \in alts : MatchesWord(word, a)

str_GuildPrefix == <<"G","u","i","l","d"," ",">"," ">>

\* context.raw: a guild chat line of user u, or a line of the server itself
\* (u = <<>>)
RawOf(u, msg) ==
    IF u = <<>> THEN msg ELSE str_GuildPrefix \o u \o <<":", " ">> \o msg

\* s ends with text
EndsWith(s, text) ==
    Len(s) >= Len(text) /\ SubSeq(s, Len(s) - Len(text) + 1, Len(s)) = text

str_joined == <<" ","j","o","i","n","e","d"," ","t","h","e"," ","g","u","i","l","d","!">>
str_left == <<" ","l","e","f","t"," ","t","h","e"," ","g","u","i","l","d","!">>

\* /^(\[.*])?\s*(\w{2,17}).*? (joined|left) the guild!$/ on a line that does
\* not begin with a bracket: a name of two or more word characters, then
\* anything, then the ending
MatchesJoinLeave(raw) ==
    LET k == LeadingSpaces(raw)
        n == LeadingWordChars(SubSeq(raw, k + 1, Len(raw)))
    IN /\ n >= 2
       /\ \E ending \in {str_joined, str_left} :
             EndsWith(raw, ending) /\ Len(raw) - Len(ending) >= k + 2

\* /^Guild > (?:\[[^\]]+\]\s+)?([A-Za-z0-9_]{3,16})(?:\s+\[[^\]]+\])?:\s*(.+)$/
\* on a line without rank tags
MatchesGuildChat(raw) ==
    /\ Len(raw) >= Len(str_GuildPrefix)
    /\ SubSeq(raw, 1, Len(str_GuildPrefix)) = str_GuildPrefix
    /\ LET rest == SubSeq(raw, Len(str_GuildPrefix) + 1, Len(raw))
           n == LeadingWordChars(rest)
       IN /\ n \in 3..16
          /\ Len(rest) >= n + 2
          /\ rest[n + 1] = ":"

str_help == <<"!","h","e","l","p">>
str_analytics == <<"!","a","n","a","l","y","t","i","c","s">>

\* getChatPatterns() of each extension, in the order of the returned array.
\* class "command": matched against the message; class "logging": the
\* analytics logging patterns, matched against the raw line
PatternsOf(extensionId) ==
    CASE extensionId = "staff-management" ->
           << [id |-> "analytics-weekly", priority |-> 5, class |-> "command",
               form |-> "subcommand", text |-> str_analytics,
               alts |-> {<<"w","e","e","k","l","y">>, <<"w","e","e","k">>}],
              [id |-> "analytics-monthly", priority |-> 5, class |-> "command",
               form |-> "subcommand", text |-> str_analytics,
               alts |-> {<<"m","o","n","t","h","l","y">>, <<"m","o","n","t","h">>}],
              [id |-> "analytics-general", priority |-> 10, class |-> "command",
               form |-> "word", text |-> str_analytics, alts |-> {}],
              [id |-> "analytics-guild-chat", priority |-> 500, class |-> "logging",
               form |-> "guildChat", text |-> str_GuildPrefix, alts |-> {}],
              [id |-> "analytics-member-join-leave", priority |-> 500,
               class |-> "logging", form |-> "joinLeave", text |-> <<>>,
               alts |-> {str_joined, str_left}] >>
      [] extensionId = "hypixel-stats" ->
           << [id |-> "hypixel-general-info", priority |-> 1, class |-> "command",
               form |-> "argument", text |-> <<"!","h","y","p","i","x","e","l">>, alts |-> {}],
              [id |-> "hypixel-help", priority |-> 1, class |-> "command",
               form |-> "exact", text |-> str_help, alts |-> {}],
              [id |-> "duels-stats", priority |-> 1, class |-> "command",
               form |-> "argument", text |-> <<"!","d","u","e","l","s">>, alts |-> {}] >>
      [] extensionId = "fun-bot" ->
           << [id |-> "fun-ping", priority |-> 5, class |-> "command",
               form |-> "word", text |-> <<"!","p","i","n","g">>, alts |-> {}],
              [id |-> "help", priority |-> 5, class |-> "command",
               form |-> "optionalWord", text |-> str_help, alts |-> {}] >>
      [] extensionId = "urchin-blacklist" ->
           << [id |-> "urchin-view", priority |-> 1, class |-> "command",
               form |-> "argument", text |-> <<"!","v","i","e","w">>, alts |-> {}] >>

ExtensionIds == {"staff-management", "hypixel-stats", "fun-bot", "urchin-blacklist"}

\* pattern.pattern.test(...) for the line of user u with message msg
Matches(p, u, msg) ==
    CASE p.form = "exact" -> MatchesExact(msg, p.text)
      [] p.form = "word" -> MatchesWord(msg, p.text)
      [] p.form = "optionalWord" -> MatchesWithWord(msg, p.text)
      [] p.form = "argument" -> MatchesWithArgument(msg, p.text)
      [] p.form = "subcommand" -> MatchesSubcommand(msg, p.text, p.alts)
      [] p.form = "guildChat" -> MatchesGuildChat(RawOf(u, msg))
      [] p.form = "joinLeave" -> MatchesJoinLeave(RawOf(u, msg))

\* the patterns of the registered extensions in registration order
RECURSIVE Flat(_)
Flat(reg) == IF reg = <<>> THEN <<>> ELSE PatternsOf(Head(reg)) \o Flat(Tail(reg))

\* the priorities in ascending order
RECURSIVE Ascending(_)
Ascending(S) ==
    IF S = {} THEN <<>>
    ELSE LET lo == CHOOSE x \in S : \A y \in S : x <= y
         IN <<lo>> \o Ascending(S \ {lo})

RECURSIVE ByPriority(_, _)
ByPriority(flat, prios) ==
    IF prios = <<>> THEN <<>>
    ELSE SelectSeq(flat, LAMBDA p : p.priority = Head(prios))
            \o ByPriority(flat, Tail(prios))

\* a registry that hands the patterns out in registration order
allPatterns_Unsorted(reg) == Flat(reg)

\* allPatterns(): ascending priority, registration order among equals
allPatterns(reg) ==
    LET flat == Flat(reg)
    IN ByPriority(flat, Ascending({flat[i].priority : i \in DOMAIN flat}))

\* a dispatcher in which a command match also silences the logging patterns
Fires_Exclusive(p, stopped) == ~stopped

\* whether a matching pattern fires: a logging pattern always, a command
\* pattern unless a command has fired for this line
Fires(p, stopped) == p.class = "logging" \/ ~stopped

\* the dispatcher's scan of the sorted patterns from position i
RECURSIVE Scan(_, _, _, _, _)
Scan(pats, u, msg, i, stopped) ==
    IF i > Len(pats) THEN <<>>
    ELSE LET p == pats[i]
         IN IF Matches(p, u, msg) /\ Fires(p, stopped)
            THEN <<p.id>> \o Scan(pats, u, msg, i + 1,
                                  stopped \/ p.class = "command")
            ELSE Scan(pats, u, msg, i + 1, stopped)

\* handleGuildChatLog: the logEvent('message', playerName) calls of one
\* invocation (analytics enabled); matches holds the pattern's two groups
handleGuildChatLog(matchesLength, channel) ==
    IF matchesLength >= 3 THEN 1
    ELSE IF channel \in {"Guild", "Officer"} THEN 1 ELSE 0

\* the lines the server itself prints
ServerLines == {<<"B","o","b"," ","j","o","i","n","e","d"," ","t","h","e"," ","g","u","i","l","d","!">>, <<"G","u","i","l","d"," ",">"," ","A","l",":"," ","h","i">>}

\* the messages of the chat lines dispatched
Messages == 
    {<<"!","h","e","l","p">>,
     <<"!","H","E","L","P">>,
     <<"!","h","e","l","p"," ","p","i","n","g">>,
     <<"!","h","e","l","p","m","e">>,
     <<"!","a","n","a","l","y","t","i","c","s"," ","w","e","e","k","l","y">>,
     <<"!","A","n","a","l","y","t","i","c","s"," "," ","w","e","e","k">>,
     <<"!","a","n","a","l","y","t","i","c","s"," ","w","e","e","k","s">>,
     <<"!","a","n","a","l","y","t","i","c","s">>,
     <<"!","a","n","a","l","y","t","i","c","s"," ","m","o","n","t","h","l","y">>,
     <<"!","a","n","a","l","y","t","i","c","s","w","e","e","k","l","y">>,
     <<"!","p","i","n","g">>,
     <<"B","o","b"," ","j","o","i","n","e","d"," ","t","h","e"," ","g","u","i","l","d","!">>,
     <<"!","v","i","e","w"," ","S","t","e","v","e">>,
     <<"!","d","u","e","l","s">>,
     <<"h","e","l","l","o">>}

handlerVars == <<ext, now, lines, cooldowns, processingRequests, cache, execs,
                 chat, dels, accepted, rankCooldowns, pingCount, lastPingTime,
                 sent, lifecycleVars, mentionVars, staffVars, trackerVars>>

\* a registry that keeps the prior registration of a re-registered extension
Register_Keep(extensionId, toEnd) ==
    /\ Len(registered) < Cardinality(ExtensionIds) + 1
    /\ registered' = Append(registered, extensionId)
    /\ message' = <<>>
    /\ invoked' = <<>>
    /\ sender' = <<>>
    /\ logged' = 0
    /\ UNCHANGED <<running, outstanding, caught, handlerVars>>

\* register(extensionId, patterns): replaces any prior registration of the
\* extension; the replaced registration keeps its place or moves to the end
Register(extensionId, toEnd) ==
    /\ registered' =
          IF \A i \in DOMAIN registered : registered[i] # extensionId
          THEN Append(registered, extensionId)
          ELSE IF toEnd
          THEN Append(SelectSeq(registered, LAMBDA e : e # extensionId),
                      extensionId)
          ELSE registered
    /\ message' = <<>>
    /\ invoked' = <<>>
    /\ sender' = <<>>
    /\ logged' = 0
    /\ UNCHANGED <<running, outstanding, caught, handlerVars>>

\* the registries: every order of every set of extensions
Registries ==
    {reg \in UNION {[1..n -> ExtensionIds] : n \in 0..Cardinality(ExtensionIds)} :
        \A i, j \in DOMAIN reg : i # j => reg[i] # reg[j]}

\* the chat lines: <<username, message>>, a server line without username
ChatLines == ({Bob} \X Messages) \cup ({<<>>} \X ServerLines)

\* the handlers the dispatcher invokes for each registry and line, tabulated
Dispatched ==
    [k \in Registries \X ChatLines |->
        Scan(allPatterns(k[1]), k[2][1], k[2][2], 1, FALSE)] @@ <<>>

\* a dispatcher that finishes one line's handlers before it takes the next
MayDispatch_Await(n) == n = 0

\* the dispatcher does not await the handlers it invoked
MayDispatch(n) == TRUE

\* a dispatcher whose loop dies with the rejected handler
Survives_Crash(alive) == FALSE

\* a handler's exception is caught and logged; the loop goes on
Survives(alive) == alive

\* one chat line of user u (<<>>: of the server) is dispatched: the handlers
\* are invoked and left to run
Dispatch(u, msg) ==
    /\ running
    /\ MayDispatch(outstanding)
    /\ message' = msg
    /\ sender' = u
    /\ invoked' = Dispatched[<<registered, <<u, msg>>>>]
    /\ outstanding + Len(invoked') <= MaxOutstanding
    /\ outstanding' = outstanding + Len(invoked')
    /\ logged' = Len(SelectSeq(invoked', LAMBDA id : id = "analytics-guild-chat"))
                    * handleGuildChatLog(3, "Guild")
    /\ UNCHANGED <<registered, running, caught, handlerVars>>

\* the promise of an invoked handler resolves
HandlerResolves ==
    /\ outstanding > 0
    /\ outstanding' = outstanding - 1
    /\ UNCHANGED <<registered, message, invoked, sender, logged, running, caught,
                   handlerVars>>

\* an invoked handler throws: its promise rejects
HandlerRejects ==
    /\ outstanding > 0
    /\ outstanding' = outstanding - 1
    /\ caught' = TRUE
    /\ running' = Survives(running)
    /\ UNCHANGED <<registered, message, invoked, sender, logged, handlerVars>>

DispatchInit == Init /\ ext = "hypixel-stats"

DispatchNext ==
    \/ \E e \in ExtensionIds, toEnd \in BOOLEAN : Register(e, toEnd)
    \/ \E line \in ChatLines : Dispatch(line[1], line[2])
    \/ HandlerResolves
    \/ HandlerRejects

DispatchSpec == DispatchInit /\ [][DispatchNext]_vars

----------------------------------------------------------------------------
(* Rank resolution under configured tables *)

str_Guest == <<"G","u","e","s","t">>
str_EliteMod == <<"E","l","i","t","e"," ","M","o","d">>
str_GuildLeader == <<"G","u","i","l","d"," ","L","e","a","d","e","r">>

\* context.guildRank values: absent (empty), table keys, bracketed tags and
\* labels that carry keywords
RankLabels ==
    {<<>>, str_Member, str_Elite, str_Mod, str_Moderator, str_Leader, str_GM,
     str_GuildMaster, str_SBMAIN, str_Guest, str_EliteMod, str_GuildLeader,
     <<"[">> \o str_GM \o <<"]">>}

\* config.guildRankCooldowns as an operator may configure it: the table in
\* force, and one in which further ranks are exempted (0 seconds)
RankTablesOf(e) ==
    IF e = "fun-bot"
    THEN {FunBotRankCooldowns,
          (str_GM :> 0) @@ (str_Leader :> 1) @@ (str_SBMAIN :> 0)
              @@ (str_Elite :> 1) @@ (str_Mod :> 0) @@ (str_Member :> 2)}
    ELSE {HypixelRankCooldowns,
          (str_GuildMaster :> 0) @@ (str_Leader :> 1) @@ (str_Moderator :> 0)
              @@ (str_SBMAIN :> 0) @@ (str_Elite :> 2) @@ (str_Member :> 1)}

RankInit ==
    /\ ext \in {"hypixel-stats", "fun-bot"}
    /\ rankCooldowns \in RankTablesOf(ext)
    /\ now = StartTime
    /\ lines = 0
    /\ cooldowns = EmptyMap
    /\ processingRequests = {}
    /\ cache = EmptyMap
    /\ execs = <<>>
    /\ chat = {}
    /\ dels = 0
    /\ accepted = EmptyMap
    /\ pingCount = 0
    /\ lastPingTime = 0
    /\ sent = <<>>
    /\ Initialized
    /\ recentResponses = EmptyMap
    /\ NoAnalytics
    /\ isUpdating = FALSE
    /\ lastUpdate = NoUpdate
    /\ calls = <<>>
    /\ registered = <<>>
    /\ message = <<>>
    /\ invoked = <<>>
    /\ sender = <<>>
    /\ logged = 0
    /\ running = TRUE
    /\ outstanding = 0
    /\ caught = FALSE

\* a stats command line whose context.guildRank is any of the labels
RankedStatsCommand(u, guildRank, h, arg) == statsCommand(u, guildRank, h, arg)

\* a fun-bot line whose context.guildRank is any of the labels
RankedResponse(u, guildRank, channel) ==
    /\ sendResponse(u, guildRank, channel)
    /\ UNCHANGED <<pingCount, lastPingTime, mentionVars>>

\* the lookups of this specification fail, so that executions end
RankNext ==
    \/ Tick
    \/ \E l \in StatsLines, r \in RankLabels :
          RankedStatsCommand(l[1], r, l[2], l[3])
    \/ \E i \in 1..MaxLines, o \in {"error", "throw"} : MojangResolve(i, o)
    \/ \E u \in Users, r \in RankLabels, ch \in Channels : RankedResponse(u, r, ch)
    \/ CooldownSweep

RankSpec == RankInit /\ [][RankNext]_vars

----------------------------------------------------------------------------
(* fun-bot: handleBotMention *)

str_miscmanager == <<"m","i","s","c","m","a","n","a","g","e","r">>
str_atmiscmanager == <<"@","m","i","s","c","m","a","n","a","g","e","r">>

\* (hey|hi|hello|yo|sup)
MentionGreetings == {<<"h","e","y">>, <<"h","i">>, <<"h","e","l","l","o">>, <<"y","o">>, <<"s","u","p">>}

\* String.prototype.startsWith
startsWith(s, text) == Len(s) >= Len(text) /\ SubSeq(s, 1, Len(text)) = text

\* part_003 lines 628-634: isDirectlyAddressed, for the lower-cased message text
isDirectlyAddressed(text) ==
    \/ startsWith(text, str_miscmanager)
    \/ startsWith(text, str_atmiscmanager)
    \/ \E g \in MentionGreetings :
          /\ startsWith(text, g)
          /\ LET rest == SubSeq(text, Len(g) + 1, Len(text))
                 k == LeadingSpaces(rest)
                 word == SubSeq(rest, k + 1, Len(rest))
                 name == IF word # <<>> /\ Head(word) = "@" THEN Tail(word) ELSE word
             IN k >= 1 /\ MatchesWord(name, str_miscmanager)
    \/ \E c \in {"?", "!", ","} : includes(text, str_miscmanager \o <<c>>)

\* the messages the bot-mention pattern (part_003 line 272) hands to the handler
MentionMessages == {<<"M","i","s","c","M","a","n","a","g","e","r"," ","h","i">>, <<"y","o"," "," ","@","m","i","s","c","m","a","n","a","g","e","r">>}

ResponseWindow == 5000   \* Math.floor(now / 5000): the window of a response key
ResponseMaxAge == 10000  \* entries older than this are deleted
MentionStep == 2500      \* one clock advance between mentions (ms)
MaxMentionSteps == 5     \* clock advances per behaviour

\* `${context.username}-${Math.floor(now / 5000)}`
lastResponseKey(username, t) == <<username, t \div ResponseWindow>>

\* part_003 lines 652-657: the clean-up loop at time t
cleanupResponses(rr, t) ==
    [k \in {x \in DOMAIN rr : ~(t - rr[x] > ResponseMaxAge)} |-> rr[k]]

\* handleBotMention(context, api) for a line of user u
handleBotMention(u, msg, channel) ==
    /\ ext = "fun-bot"
    /\ IF \/ ~isDirectlyAddressed(toLowerCase(msg))
          \/ lastResponseKey(u, now) \in DOMAIN recentResponses
       THEN /\ lines < MaxLines
            /\ lines' = lines + 1
            /\ Silent
            /\ UNCHANGED <<dispatchVars, trackerVars, staffVars, lifecycleVars, mentionVars, ext,
                           rankCooldowns, now, processingRequests, cache,
                           execs, cooldowns, accepted>>
       ELSE /\ recentResponses' =
                   cleanupResponses(MapSet(recentResponses, lastResponseKey(u, now), now), now)
            /\ sendResponse(u, GuildRankOf(u), channel)
    /\ UNCHANGED <<pingCount, lastPingTime>>

\* time passes between two mentions
MentionTick ==
    /\ now + MentionStep <= StartTime + MaxMentionSteps * MentionStep
    /\ now' = now + MentionStep
    /\ Silent
    /\ UNCHANGED <<dispatchVars, trackerVars, staffVars, lifecycleVars, mentionVars, ext,
                   rankCooldowns, pingCount, lastPingTime, lines, cooldowns,
                   processingRequests, cache, execs, accepted>>

MentionInit == Init /\ ext = "fun-bot"

MentionNext ==
    \/ MentionTick
    \/ \E u \in Users, msg \in MentionMessages, ch \in Channels :
          handleBotMention(u, msg, ch)

MentionSpec == MentionInit /\ [][MentionNext]_vars

----------------------------------------------------------------------------
(* staff-management: commands and permissions *)

str_Unknown == <<"U","n","k","n","o","w","n">>

\* '[' + rank + ']'
Bracketed(rank) == <<"[">> \o rank \o <<"]">>

\* README.md lines 157-160
analyticsRanks ==
    {Bracketed(str_Mod), Bracketed(str_Leader), Bracketed(str_GM),
     Bracketed(str_GuildMaster)}
adminRanks == {Bracketed(str_Leader), Bracketed(str_GM), Bracketed(str_GuildMaster)}

\* the staff commands: the four !analytics handlers check the same ranks
StaffCommands == {"reboot", "save", "analytics"}

\* the rank list a command's handler passes to hasPermission
RequiredRanks(command) == IF command = "reboot" THEN adminRanks ELSE analyticsRanks

\* context.guildRank of the lines of the model (<<>>: undefined or '')
ContextRanks ==
    {<<>>, str_Unknown, Bracketed(str_GM), str_Leader, Bracketed(str_Mod),
     str_Member, <<"[">> \o str_GM, toLowerCase(Bracketed(str_GM))}

\* what fetchGuildRank resolves with (<<>>: null, or a member without rank)
FetchedRanks == {<<>>, str_GuildMaster, str_Mod, str_Member}

\* hasPermission needs fetchGuildRank for this context.guildRank
NeedsFetch(guildRank) == guildRank = <<>> \/ guildRank = str_Unknown

\* guildRank.startsWith('[') ? guildRank : `[${guildRank}]`
rankWithBrackets(guildRank) ==
    IF guildRank # <<>> /\ Head(guildRank) = "[" THEN guildRank ELSE Bracketed(guildRank)

\* a comparison that ignores the brackets and the case of the rank
includesRank_Loose(requiredRanks, guildRank) ==
    \E r \in requiredRanks :
        includes(toLowerCase(r), toLowerCase(SelectSeq(guildRank, LAMBDA c : c \notin {"[", "]"})))

\* requiredRanks.includes(rankWithBrackets), README.md lines 421-423
includesRank(requiredRanks, guildRank) == rankWithBrackets(guildRank) \in requiredRanks

\* the api.chat call a staff handler makes on a channel (reboot confirms in
\* guild chat only), if any
StaffReply(kind, channel) ==
    IF \/ channel \in {"Guild", "Officer"}
       \/ channel = "From" /\ kind # "reboot"
    THEN {Message(kind, 1)} ELSE {}

NewStaffExec(u, command, guildRank, channel, pc) ==
    [requester |-> u, command |-> command, guildRank |-> guildRank,
     channel |-> channel, pc |-> pc]

\* what hasPermission decided for execution e, and the rank it compared
\* (<<>>: fetchGuildRank resolved with null)
StaffOutcome(e, rank, outcome) ==
    [command |-> e.command, requester |-> e.requester, rank |-> rank,
     outcome |-> outcome]

\* hasPermission returned true for execution e: the handler runs up to its
\* next await (reboot and save: await this.saveAnalyticsData()), or to its end
Permitted(e, rest, rank) ==
    /\ sent' = <<StaffOutcome(e, rank, "granted")>>
    /\ IF e.command = "analytics"
       THEN /\ chat' = StaffReply("analytics", e.channel)
            /\ execs' = rest
            /\ UNCHANGED saves
       ELSE /\ chat' = IF e.command = "reboot" THEN StaffReply("reboot", e.channel) ELSE {}
            /\ saves' = saves + 1
            /\ execs' = Append(rest, [e EXCEPT !.pc = "awaitSave"])

\* hasPermission returned false: sendPermissionDenied runs up to its await
\* fetchGuildRank (context.guildRank || 'Unknown' is 'Unknown'), or to its end
Denied(e, rest, rank) ==
    /\ sent' = <<StaffOutcome(e, rank, "denied")>>
    /\ UNCHANGED saves
    /\ IF NeedsFetch(e.guildRank)
       THEN /\ chat' = {}
            /\ execs' = Append(rest, [e EXCEPT !.pc = "awaitDeniedRank"])
       ELSE /\ chat' = StaffReply("denied", e.channel)
            /\ execs' = rest

\* a staff command line of user u reaches its handler: hasPermission up to
\* its await fetchGuildRank, or through to the handler's next await
StaffCommand(u, command, guildRank, channel) ==
    /\ ext = "staff-management"
    /\ lines < MaxLines
    /\ lines' = lines + 1
    /\ LET e == NewStaffExec(u, command, guildRank, channel, "start")
       IN IF NeedsFetch(guildRank)
          THEN /\ execs' = Append(execs, [e EXCEPT !.pc = "awaitRank"])
               /\ chat' = {}
               /\ sent' = <<>>
               /\ UNCHANGED saves
          ELSE IF includesRank(RequiredRanks(command), guildRank)
               THEN Permitted(e, execs, guildRank)
               ELSE Denied(e, execs, guildRank)
    /\ dels' = 0
    /\ UNCHANGED <<dispatchVars, trackerVars, lifecycleVars, mentionVars,
                   analyticsData, events, reports, exitScheduled, ext,
                   rankCooldowns, pingCount, lastPingTime, now, cooldowns,
                   processingRequests, cache, accepted>>

\* execs without its i-th element
WithoutExec(i) == SubSeq(execs, 1, i - 1) \o SubSeq(execs, i + 1, Len(execs))

\* await this.fetchGuildRank(context.username) of hasPermission settles
RankResolve(i, fetchedRank) ==
    /\ ext = "staff-management"
    /\ i \in DOMAIN execs
    /\ execs[i].pc = "awaitRank"
    /\ IF fetchedRank # <<>> /\ includesRank(RequiredRanks(execs[i].command), fetchedRank)
       THEN Permitted(execs[i], WithoutExec(i), fetchedRank)
       ELSE Denied(execs[i], WithoutExec(i), fetchedRank)
    /\ dels' = 0
    /\ UNCHANGED <<dispatchVars, trackerVars, lifecycleVars, mentionVars,
                   analyticsData, events, reports, exitScheduled, ext,
                   rankCooldowns, pingCount, lastPingTime, now, lines, cooldowns,
                   processingRequests, cache, accepted>>

\* await this.fetchGuildRank(context.username) of sendPermissionDenied
\* settles: the access-denied message is sent
DeniedResolve(i) ==
    /\ ext = "staff-management"
    /\ i \in DOMAIN execs
    /\ execs[i].pc = "awaitDeniedRank"
    /\ chat' = StaffReply("denied", execs[i].channel)
    /\ execs' = WithoutExec(i)
    /\ dels' = 0
    /\ sent' = <<>>
    /\ UNCHANGED <<dispatchVars, trackerVars, lifecycleVars, mentionVars, staffVars,
                   ext, rankCooldowns, pingCount, lastPingTime, now, lines,
                   cooldowns, processingRequests, cache, accepted>>

\* await this.saveAnalyticsData() settles (it catches its own errors): !save
\* confirms, !reboot sets the 3-second process.exit timer
SaveResolve(i) ==
    /\ ext = "staff-management"
    /\ i \in DOMAIN execs
    /\ execs[i].pc = "awaitSave"
    /\ chat' = IF execs[i].command = "save" THEN StaffReply("saved", execs[i].channel) ELSE {}
    /\ exitScheduled' = (exitScheduled \/ execs[i].command = "reboot")
    /\ execs' = WithoutExec(i)
    /\ dels' = 0
    /\ sent' = <<>>
    /\ UNCHANGED <<dispatchVars, trackerVars, lifecycleVars, mentionVars,
                   analyticsData, events, saves, reports, ext, rankCooldowns,
                   pingCount, lastPingTime, now, lines, cooldowns,
                   processingRequests, cache, accepted>>

\* the staff command lines of the model, as <<requester, command,
\* context.guildRank, context.channel>>: every command with every rank in guild
\* chat, and the cases of the other channels
StaffLines ==
    {<<Bob, c, r, "Guild">> : c \in StaffCommands, r \in ContextRanks}
    \cup {<<Alice, "reboot", Bracketed(str_GM), ch>> : ch \in {"Officer", "From", "Party"}}
    \cup {<<Alice, "reboot", str_Member, ch>> : ch \in {"From", "Party"}}
    \cup {<<Alice, "save", <<>>, ch>> : ch \in {"From", "Other"}}
    \cup {<<Alice, "analytics", Bracketed(str_Mod), ch>> : ch \in {"From", "Party"}}
    \cup {<<Alice, "analytics", str_Unknown, "Officer">>}

StaffInit ==
    /\ ext = "staff-management"
    /\ Started

StaffNext ==
    \/ \E l \in StaffLines : StaffCommand(l[1], l[2], l[3], l[4])
    \/ \E i \in 1..MaxLines, f \in FetchedRanks : RankResolve(i, f)
    \/ \E i \in 1..MaxLines : DeniedResolve(i)
    \/ \E i \in 1..MaxLines : SaveResolve(i)

StaffSpec == StaffInit /\ [][StaffNext]_vars

-----------------------------------------------------------------------------
(* staff-management: analytics logging *)

\* 1000 * 60 * 60 * 24 (README.md line 933)
DayMs == 86400000

\* the modulus of logEvent's auto-save condition (README.md line 514)
SaveEvery == 10

MaxEvents == 4       \* logged chat lines per behaviour
MaxDays == 1         \* midnights passed per behaviour

\* new Date().toISOString().split('T')[0] at time t: the UTC day, as its
\* number counted from the day of time 0
today(t) == t \div DayMs

str_constructor == <<"c","o","n","s","t","r","u","c","t","o","r">>
str_GUILD == <<"G","U","I","L","D">>

\* the player names of the logged chat lines ([A-Za-z0-9_]{3,16}, README.md
\* line 306)
Players == {Alice, str_constructor}

\* the members every object literal inherits from Object.prototype
ObjectPrototype == {str_constructor}

\* a value that is not a number: an inherited member of Object.prototype, or
\* the string that `+ 1` makes of it
NonNumeric == -3

\* today's stats as logEvent initialises them (README.md lines 457-469)
ZeroDay ==
    [messagesReceived |-> 0, membersJoined |-> 0, membersLeft |-> 0,
     membersKicked |-> 0, promotions |-> 0, demotions |-> 0,
     guildLevelUps |-> 0, questsCompleted |-> 0, activeUsers |-> {},
     topChatters |-> EmptyMap]

\* (dayStats.topChatters[playerName] || 0) + 1 on the object literal
\* topChatters: {} (README.md line 481); a name that topChatters does not own
\* is looked up in Object.prototype
nextChatterCount(topChatters, playerName) ==
    LET v == IF playerName \in DOMAIN topChatters THEN topChatters[playerName]
             ELSE IF playerName \in ObjectPrototype THEN NonNumeric
             ELSE undefined
    IN IF v = NonNumeric THEN NonNumeric
       ELSE IF v = undefined \/ v = 0 THEN 1
       ELSE v + 1

\* the synchronous part of logEvent(type, playerName) at time t on analytics
\* data ad (README.md lines 452-511)
logEvent(ad, type, playerName, t) ==
    LET day == today(t)
        stats == IF day \in DOMAIN ad.dailyStats THEN ad.dailyStats
                 ELSE MapSet(ad.dailyStats, day, ZeroDay)
        counted(dayField, totalField) ==
            [ad EXCEPT !.dailyStats = [stats EXCEPT ![day][dayField] = @ + 1],
                       !.totalStats[totalField] = @ + 1]
    IN CASE type = "message" ->
              [ad EXCEPT
                 !.dailyStats =
                    [stats EXCEPT
                       ![day].messagesReceived = @ + 1,
                       ![day].activeUsers =
                          IF playerName # <<>> THEN @ \cup {playerName} ELSE @,
                       ![day].topChatters =
                          IF playerName # <<>>
                          THEN MapSet(@, playerName, nextChatterCount(@, playerName))
                          ELSE @],
                 !.totalStats.totalMessages = @ + 1]
         [] type = "join" -> counted("membersJoined", "totalJoins")
         [] type = "leave" -> counted("membersLeft", "totalLeaves")
         [] type = "kick" -> counted("membersKicked", "totalKicks")
         [] type = "promotion" -> counted("promotions", "totalPromotions")
         [] type = "demotion" -> counted("demotions", "totalDemotions")
         [] type = "levelup" -> counted("guildLevelUps", "totalLevelUps")
         [] type = "quest" -> counted("questsCompleted", "totalQuests")
         [] OTHER -> [ad EXCEPT !.dailyStats = stats]

\* the condition under which logEvent goes on to await saveAnalyticsData()
\* (README.md lines 513-516)
autoSaves(ad) == ad.totalStats.totalMessages % SaveEvery = 0

\* a logging handler, for a line its pattern matches, calls
\* logEvent(type, playerName) unless config.enabled is off; sent tells which
\* handler ran. saveAnalyticsData merges the data into the file and changes
\* nothing in memory.
Logs(handler, type, playerName) ==
    /\ ext = "staff-management"
    /\ events < MaxEvents
    /\ enabled
    /\ analyticsData' = logEvent(analyticsData, type, playerName, now)
    /\ events' = events + 1
    /\ saves' = IF autoSaves(analyticsData') THEN saves + 1 ELSE saves
    /\ sent' = <<[handler |-> handler, type |-> type]>>
    /\ chat' = {}
    /\ dels' = 0
    /\ UNCHANGED <<dispatchVars, trackerVars, lifecycleVars, mentionVars,
                   reports, exitScheduled, ext, rankCooldowns, pingCount,
                   lastPingTime, now, lines, cooldowns, processingRequests,
                   cache, execs, accepted>>

logGuildChat(playerName) == Logs("handleGuildChatLog", "message", playerName)

handleMemberJoinLeaveLog(playerName, type) ==
    Logs("handleMemberJoinLeaveLog", IF type = "joined" THEN "join" ELSE "leave",
         playerName)

handleMemberKickLog(playerName) == Logs("handleMemberKickLog", "kick", playerName)

handlePromoteDemoteLog(playerName, action) ==
    Logs("handlePromoteDemoteLog",
         IF action = "promoted" THEN "promotion" ELSE "demotion", playerName)

handleGuildLevelUpLog == Logs("handleGuildLevelUpLog", "guildLevelUp", str_GUILD)

handleQuestCompleteLog == Logs("handleQuestCompleteLog", "questComplete", str_GUILD)

handleQuestTierCompleteLog ==
    Logs("handleQuestTierCompleteLog", "questComplete", str_GUILD)

\* midnight (UTC) passes
Midnight ==
    /\ ext = "staff-management"
    /\ today(now) < MaxDays
    /\ now' = now + DayMs
    /\ Silent
    /\ UNCHANGED <<dispatchVars, trackerVars, staffVars, lifecycleVars,
                   mentionVars, ext, rankCooldowns, pingCount, lastPingTime,
                   lines, cooldowns, processingRequests, cache, execs, accepted>>

AnalyticsInit ==
    /\ ext = "staff-management"
    /\ Started

AnalyticsNext ==
    \/ \E p \in Players : logGuildChat(p)
    \/ \E p \in Players, type \in {"joined", "left"} : handleMemberJoinLeaveLog(p, type)
    \/ \E p \in Players : handleMemberKickLog(p)
    \/ \E p \in Players, action \in {"promoted", "demoted"} : handlePromoteDemoteLog(p, action)
    \/ handleGuildLevelUpLog
    \/ handleQuestCompleteLog
    \/ handleQuestTierCompleteLog
    \/ Midnight

AnalyticsSpec == AnalyticsInit /\ [][AnalyticsNext]_vars

-----------------------------------------------------------------------------
(* staff-management: bi-weekly report *)

\* the period of the report timer: 60 * 60 * 1000 (README.md line 905)
HourMs == 3600000

\* if (daysSinceReport >= 14) (README.md line 935)
ReportPeriodDays == 14

MaxHours == 5        \* firings of the report timer from the hour the report is due

\* the day of new Date(lastReportDate || '2024-01-01'); time 0 of a
\* behaviour of the report specification is 2024-01-01T00:00Z
DefaultReportDay == 0

\* daysSinceReport of checkBiWeeklyReport at time t (README.md lines 932-933)
daysSinceReport(ad, t) ==
    LET lastReport == IF ad.lastReportDate = NoDate THEN DefaultReportDay
                      ELSE ad.lastReportDate
    IN (t - lastReport * DayMs) \div DayMs

\* the time of the last firing of the report timer in a behaviour
ReportEnd == ReportPeriodDays * DayMs + (MaxHours - 1) * HourMs

\* the report timer fires, an hour after it fired last:
\* checkBiWeeklyReport runs up to its await this.sendBiWeeklyReport(), inside
\* which api.discord.send has been called
checkBiWeeklyReport ==
    /\ ext = "staff-management"
    /\ \E t \in timers : t[1] = "reportInterval"
    /\ now + HourMs <= ReportEnd
    /\ now' = now + HourMs
    /\ IF daysSinceReport(analyticsData, now') >= ReportPeriodDays
       THEN /\ reports' = Append(reports, today(now'))
            /\ execs' = Append(execs, [today |-> today(now'), pc |-> "awaitSend"])
       ELSE UNCHANGED <<reports, execs>>
    /\ Silent
    /\ UNCHANGED <<dispatchVars, trackerVars, lifecycleVars, mentionVars,
                   analyticsData, events, saves, exitScheduled, ext,
                   rankCooldowns, pingCount, lastPingTime, lines, cooldowns,
                   processingRequests, cache, accepted>>

\* await this.sendBiWeeklyReport() settles (it catches the errors of the
\* send): lastReportDate = today, then saveAnalyticsData() is awaited
ReportSent(i) ==
    /\ ext = "staff-management"
    /\ i \in DOMAIN execs
    /\ execs[i].pc = "awaitSend"
    /\ analyticsData' = [analyticsData EXCEPT !.lastReportDate = execs[i].today]
    /\ saves' = saves + 1
    /\ execs' = [execs EXCEPT ![i].pc = "awaitSave"]
    /\ Silent
    /\ UNCHANGED <<dispatchVars, trackerVars, lifecycleVars, mentionVars,
                   events, reports, exitScheduled, ext, rankCooldowns,
                   pingCount, lastPingTime, now, lines, cooldowns,
                   processingRequests, cache, accepted>>

\* await this.saveAnalyticsData() of checkBiWeeklyReport settles
ReportSaved(i) ==
    /\ ext = "staff-management"
    /\ i \in DOMAIN execs
    /\ execs[i].pc = "awaitSave"
    /\ execs' = SubSeq(execs, 1, i - 1) \o SubSeq(execs, i + 1, Len(execs))
    /\ Silent
    /\ UNCHANGED <<dispatchVars, trackerVars, staffVars, lifecycleVars,
                   mentionVars, ext, rankCooldowns, pingCount, lastPingTime,
                   now, lines, cooldowns, processingRequests, cache, accepted>>

\* an initialised instance with zeroed analytics data, an hour before 14 days
\* have passed since the default report date, or an hour before the 14th day
ReportInit ==
    /\ ext = "staff-management"
    /\ \E t \in {ReportPeriodDays * DayMs - HourMs,
                 (ReportPeriodDays - 1) * DayMs - HourMs} : StartedAt(t)

ReportNext ==
    \/ checkBiWeeklyReport
    \/ \E i \in 1..MaxHours : ReportSent(i)
    \/ \E i \in 1..MaxHours : ReportSaved(i)

ReportSpec == ReportInit /\ [][ReportNext]_vars

----------------------------------------------------------------------------
(* Properties: in-flight deduplication *)

\* the request keys the command lines of the model can form
StatsKeys == {RequestKey(l[1], TargetOf(l[3], l[1]), l[2].gameMode) : l \in StatsLines}
ViewKeys == {RequestKey(l[1], TargetOf(l[2], l[1]), str_view) : l \in ViewLines}
AllKeys == StatsKeys \cup ViewKeys

NoAccept == [at |-> 0, n |-> 0]
AcceptedOf(acc, u) == MapGet(acc, u, NoAccept)

\* C1: in hypixel-stats and urchin-blacklist, at most one handler execution
\* that has passed the deduplication check and has not yet finished exists
\* per requestKey, and the key of each such execution is in processingRequests.
C1_OneInFlightPerKey ==
    /\ \A i, j \in DOMAIN execs :
          i # j => execs[i].requestKey # execs[j].requestKey
    /\ \A i \in DOMAIN execs : execs[i].requestKey \in processingRequests

\* hypixel-stats: Bob's line was accepted once and is in flight, and the other
\* line that arrived was not Alice's (she has never been accepted and so could
\* not have been refused): Bob repeated his request while it was in flight
C1_Witness ==
    /\ ext = "hypixel-stats"
    /\ lines = 2
    /\ Len(execs) = 1
    /\ execs[1].requester = Bob
    /\ DOMAIN accepted = {Bob}
    /\ accepted[Bob].n = 1

\* C2: the first request with key K is accepted and inserts K; a request that
\* arrives with key K while K is in processingRequests is dropped silently:
\* it sends no chat message, writes no cooldown record, starts no fetch and
\* leaves processingRequests (and the cache) unchanged.
C2_DuplicateDroppedSilently ==
    [][ /\ \A l \in StatsLines :
             LET key == RequestKey(l[1], TargetOf(l[3], l[1]), l[2].gameMode)
                 cd == isOnCooldown(cooldowns, l[1], GuildRankOf(l[1]), now)
             IN StatsCommand(l[1], l[2], l[3]) =>
                  /\ key \in processingRequests =>
                        /\ chat' = {} /\ dels' = 0
                        /\ UNCHANGED <<cooldowns, processingRequests, cache,
                                       execs, accepted>>
                  /\ (key \notin processingRequests /\ (cd = null \/ cd <= 0)) =>
                        /\ processingRequests' = processingRequests \cup {key}
                        /\ Len(execs') = Len(execs) + 1
                        /\ execs'[Len(execs')].requestKey = key
        /\ \A l \in ViewLines :
             LET key == RequestKey(l[1], TargetOf(l[2], l[1]), str_view)
                 cd == Urchin_isOnCooldown(cooldowns, l[1], now)
             IN ViewCommand(l[1], l[2]) =>
                  /\ key \in processingRequests =>
                        /\ chat' = {} /\ dels' = 0
                        /\ UNCHANGED <<cooldowns, processingRequests, cache,
                                       execs, accepted>>
                  /\ (key \notin processingRequests /\ cd <= 0) =>
                        /\ processingRequests' = processingRequests \cup {key}
                        /\ Len(execs') = Len(execs) + 1
                        /\ execs'[Len(execs')].requestKey = key
      ]_vars

\* urchin-blacklist: Bob's `!view` was accepted once and is in flight, a second
\* line arrived and Alice was never accepted, so the second line was Bob's
\* repeat of the request in flight; it left no trace
C2_Witness ==
    /\ ext = "urchin-blacklist"
    /\ lines = 2
    /\ Len(execs) = 1
    /\ execs[1].requester = Bob
    /\ processingRequests = {execs[1].requestKey}
    /\ DOMAIN accepted = {Bob}
    /\ accepted[Bob].n = 1
    /\ DOMAIN cooldowns = {Bob}
    /\ cooldowns[Bob] = accepted[Bob].at
    /\ chat = {}

\* C3: provided every awaited fetch settles, every key inserted into
\* processingRequests is eventually removed, on success, fetch-error and
\* exception paths alike; and the key is absent once its handler has finished.
C3_KeyEventuallyRemoved ==
    /\ \A k \in AllKeys : []<>(k \notin processingRequests)
    /\ [][\A i \in DOMAIN execs :
             execs' = RemoveExec(i) =>
                 execs[i].requestKey \notin processingRequests']_vars

\* a handler has just finished through its catch block and left nothing behind
C3_Witness ==
    /\ lines >= 1
    /\ chat \in {{Message("error", 1)}, {Message("blacklistFailed", 1)}}
    /\ dels = 1
    /\ execs = <<>>
    /\ processingRequests = {}

\* C4 as claimed: each execution that finishes performs exactly one removal
\* operation on processingRequests.
C4_OneDeleteCall ==
    [][\A i \in DOMAIN execs : execs' = RemoveExec(i) => dels' = 1]_vars

\* C4: each inserted key is removed exactly once, by the execution that
\* inserted it and in the step in which that execution finishes: a key leaves
\* processingRequests only then, it is still present when its execution
\* finishes, and it enters only with a newly accepted execution. The
\* finishing step calls delete once, or twice on the fetch-error return, where
\* the second call finds the key already gone.
C4_RemovedOnceByOwner ==
    [][ /\ \A k \in processingRequests \ processingRequests' :
             \E i \in DOMAIN execs :
                 execs[i].requestKey = k /\ execs' = RemoveExec(i)
        /\ \A i \in DOMAIN execs :
             execs' = RemoveExec(i) =>
                 /\ execs[i].requestKey \in processingRequests
                 /\ processingRequests' = processingRequests \ {execs[i].requestKey}
                 /\ dels' \in {1, 2}
                 /\ dels' = 2 <=> chat' = {Message("fetchError", 1)}
        /\ \A k \in processingRequests' \ processingRequests :
             /\ execs' # execs
             /\ Len(execs') = Len(execs) + 1
             /\ execs'[Len(execs')].requestKey = k
        /\ Len(execs') >= Len(execs) => dels' = 0
      ]_vars

\* two executions were in flight; one has just finished on the fetch-error
\* return, calling delete twice, and the other's key is still in the set
C4_Witness ==
    /\ ext = "hypixel-stats"
    /\ dels = 2
    /\ chat = {Message("fetchError", 1)}
    /\ Len(execs) = 1
    /\ processingRequests = {execs[1].requestKey}
    /\ lines = 2

----------------------------------------------------------------------------
(* Properties: per-user cooldown *)

\* the cooldown applying to user u under the running extension, in ms
\* (null: the rank resolves to no cooldown)
CooldownMsOf(u) ==
    LET secs == CASE ext = "hypixel-stats" ->
                       ResolveCooldownSeconds(rankCooldowns, GuildRankOf(u))
                  [] ext = "fun-bot" ->
                       FunBotResolveCooldownSeconds(rankCooldowns, GuildRankOf(u))
                  [] OTHER -> null
    IN IF ext = "urchin-blacklist" THEN cooldownTime
       ELSE IF secs = null THEN null ELSE secs * MsPerSecond

----------------------------------------------------------------------------
(* Properties: lookup cache *)

\* the instants of the model's clock
Times == {StartTime + k * TickMs : k \in 0..MaxTicks}

Range(f) == {f[x] : x \in DOMAIN f}

MojangKeyOf(e) == generateCacheKey(str_mojang, e.target, <<>>)
SecondKeyOf(e) == generateCacheKey(SecondType(e.handler), e.mojangProfile.id, <<>>)

\* C6: getCachedData(key) never returns the data of an entry whose
\* expiresAt <= now: for such an entry it returns null and that read deletes
\* the entry (and no other); an unexpired entry is returned as stored. This
\* holds for every cache that sets, reads and sweeps can produce.
C6_NeverReturnsExpired ==
    \A k \in DOMAIN cache, t \in Times :
        t >= now =>
            LET r == getCachedData(cache, k, t)
            IN /\ cache[k].expiresAt <= t =>
                     /\ r.data = NoData
                     /\ r.cache = [x \in DOMAIN cache \ {k} |-> cache[x]]
               /\ cache[k].expiresAt > t =>
                     /\ r.data = cache[k].data
                     /\ r.cache = cache

\* the cache holds an entry at the very instant it expires
C6_Witness ==
    \E k \in DOMAIN cache :
        /\ cache[k].expiresAt = now
        /\ getCachedData(cache, k, now).data = NoData
        /\ k \notin DOMAIN getCachedData(cache, k, now).cache

SecondReadAt(e) ==
    LET skey == SecondKeyOf(e)
        type == SecondType(e.handler)
    IN IF Fresh(cache, skey, now)
       THEN /\ e.pc = "awaitMessage"
            /\ e.data = cache[skey].data
            /\ type \notin Range(e.fetched)
       ELSE /\ e.pc = "awaitSecond"
            /\ e.fetched[Len(e.fetched)] = type
            /\ skey \notin DOMAIN cache'

WrittenNow(c, key, d) ==
    /\ key \in DOMAIN c
    /\ c[key] = [data |-> d, timestamp |-> now, expiresAt |-> now + cacheExpiryTime]

\* C8: a setCachedData(key, d2) on a key that may already hold d1 leaves one
\* entry for the key, holding d2 with the timestamp and expiresAt of this
\* write; from then to its expiry a get returns d2, and nothing else of the
\* cache is written by the step.
C8_SetOverwrites ==
    [][ ext = "hypixel-stats" =>
        \A i \in DOMAIN execs :
          (Len(execs') = Len(execs) /\ execs'[i] # execs[i]) =>
             LET key == IF execs[i].pc = "awaitMojang"
                        THEN MojangKeyOf(execs[i]) ELSE SecondKeyOf(execs[i])
                 d2 == IF execs[i].pc = "awaitMojang"
                       THEN execs'[i].mojangProfile ELSE execs'[i].data
             IN /\ d2.asOf = now
                /\ WrittenNow(cache', key, d2)
                /\ \A t \in Times :
                      (now <= t /\ t < now + cacheExpiryTime) =>
                          getCachedData(cache', key, t).data = d2
                /\ \A k \in DOMAIN cache' \ {key} :
                      k \in DOMAIN cache /\ cache'[k] = cache[k]
      ]_vars

\* an execution still holds the Mojang profile it fetched and cached, and the
\* entry of that key now holds a later fetch's profile: the key was set twice
C8_Witness ==
    \E i \in DOMAIN execs :
        /\ ext = "hypixel-stats"
        /\ str_mojang \in Range(execs[i].fetched)
        /\ execs[i].mojangProfile # NoData
        /\ MojangKeyOf(execs[i]) \in DOMAIN cache
        /\ cache[MojangKeyOf(execs[i])].data # execs[i].mojangProfile
        /\ cache[MojangKeyOf(execs[i])].timestamp > execs[i].mojangProfile.asOf
        /\ getCachedData(cache, MojangKeyOf(execs[i]), now).data
              = cache[MojangKeyOf(execs[i])].data

\* C9: after the periodic cache sweep has run at time now the cache contains
\* no entry with expiresAt <= now, and every entry with expiresAt > now is
\* left unchanged.
C9_SweepRemovesExpiredOnly ==
    [][ CacheSweep =>
          /\ \A k \in DOMAIN cache' : cache'[k].expiresAt > now
          /\ \A k \in DOMAIN cache :
                cache[k].expiresAt > now =>
                    k \in DOMAIN cache' /\ cache'[k] = cache[k]
          /\ DOMAIN cache' \subseteq DOMAIN cache
      ]_vars

\* one command was served and nothing has read the cache since its lookups;
\* the Mojang entry it wrote is gone while the later skyblock entry remains
C9_Witness ==
    /\ ext = "hypixel-stats"
    /\ lines = 1
    /\ execs = <<>>
    /\ chat = {}
    /\ DOMAIN cache = {generateCacheKey(str_skyblock, UuidOf(steve), <<>>)}
    /\ \A k \in DOMAIN cache : cache[k].expiresAt > now

\* lookup types and identifiers the keys are formed from
LookupTypes == {str_mojang, str_player, str_skyblock}
Identifiers ==
    {Steve, steve, <<"S","T","E","V","E">>, Alice, Bob, UuidOf(Steve), UuidOf(Bob),
     str_player, <<"p","l","a","y","e","r",":","x">>}

\* identifiers that differ only in letter case produce the same key
KeysIgnoreCase ==
    \A ty \in LookupTypes, a, b \in Identifiers :
        toLowerCase(a) = toLowerCase(b) =>
            generateCacheKey(ty, a, <<>>) = generateCacheKey(ty, b, <<>>)

\* keys of different lookup types never coincide
KeysSeparateTypes ==
    \A ty1, ty2 \in LookupTypes, a, b \in Identifiers :
        ty1 # ty2 => generateCacheKey(ty1, a, <<>>) # generateCacheKey(ty2, b, <<>>)

\* C10: two identifiers that differ only in letter case produce the same key
\* for the same lookup type, keys of different lookup types never coincide,
\* and every cache entry sits under the key of its own type and lower-cased
\* identifier, so what was cached for "Steve" is what "steve" reads.
C10_KeysCaseInsensitiveTyped ==
    /\ KeysIgnoreCase
    /\ KeysSeparateTypes
    /\ \A k \in DOMAIN cache :
          /\ cache[k].data.kind \in LookupTypes
          /\ IF cache[k].data.kind = str_mojang
             THEN \E l \in StatsLines :
                     /\ k = generateCacheKey(str_mojang, toLowerCase(l[3]), <<>>)
                     /\ cache[k].data.id = UuidOf(l[3])
             ELSE k = generateCacheKey(cache[k].data.kind, cache[k].data.id, <<>>)
    /\ \A i \in DOMAIN execs :
          (ext = "hypixel-stats" /\ execs[i].mojangProfile # NoData) =>
              execs[i].mojangProfile.id = UuidOf(execs[i].target)

\* Alice asked for "Steve" and Bob for "steve", each once; Bob's execution
\* fetched no Mojang profile: it read the one cached for "Steve"
C10_Witness ==
    /\ ext = "hypixel-stats"
    /\ DOMAIN accepted = {Alice, Bob}
    /\ accepted[Alice].n = 1 /\ accepted[Bob].n = 1
    /\ \E i \in DOMAIN execs :
          /\ execs[i].requester = Bob
          /\ execs[i].target = steve
          /\ execs[i].mojangProfile # NoData
          /\ str_mojang \notin Range(execs[i].fetched)

----------------------------------------------------------------------------
(* Properties: rank resolution *)

\* the cooldown in seconds the running extension resolves for a rank label
Resolved(guildRank) ==
    IF ext = "fun-bot"
    THEN FunBotResolveCooldownSeconds(rankCooldowns, guildRank)
    ELSE ResolveCooldownSeconds(rankCooldowns, guildRank)

\* the cooldown check of the running extension at time t
CooldownCheck(u, guildRank, t) ==
    IF ext = "fun-bot"
    THEN FunBot_isOnCooldown(cooldowns, u, guildRank, t)
    ELSE isOnCooldown(cooldowns, u, guildRank, t)

\* how long after `now` the check is asked, in ms
ProbeOffsets == {0, 1, 999, 1000, 1001, 1999, 2000}

\* the keyword tiers in their fixed order: the words looked for in the
\* lower-cased label
TierWords ==
    << {toLowerCase(str_GuildMaster), str_guildmaster, toLowerCase(str_GM)},
       {toLowerCase(str_Leader)},
       {toLowerCase(str_Moderator), toLowerCase(str_Mod)},
       {toLowerCase(str_Elite)},
       {toLowerCase(str_Member)} >>

\* the table key each tier reads
TierKeys == <<str_GuildMaster, str_Leader, str_Moderator, str_Elite, str_Member>>

TierKey(i) == IF i = 1 /\ ext = "fun-bot" THEN str_GM ELSE TierKeys[i]

\* the tiers whose keyword the label contains
MatchingTiers(guildRank) ==
    LET lc == toLowerCase(guildRank)
    IN {i \in DOMAIN TierWords : \E w \in TierWords[i] : includes(lc, w)}

\* the first such tier's table value; the Member value when the label
\* contains no keyword or the table has no entry for the tier
KeywordOrMember(guildRank) ==
    LET m == MatchingTiers(guildRank)
        first == CHOOSE i \in m : \A j \in m : i <= j
    IN IF m # {} /\ TierKey(first) \in DOMAIN rankCooldowns
       THEN rankCooldowns[TierKey(first)]
       ELSE rankCooldowns[str_Member]

\* C11: for a rank whose cooldown in the table is 0 the cooldown check
\* reports "not on cooldown" (null), for every username, every invocation
\* history and every time.
C11_ZeroRankNeverThrottled ==
    \A r \in DOMAIN rankCooldowns, u \in Users, d \in ProbeOffsets :
        rankCooldowns[r] = 0 => CooldownCheck(u, r, now + d) = null

C13_ExactKeyFirst ==
    \A r \in RankLabels :
        Resolved(r) = IF r \in DOMAIN rankCooldowns THEN rankCooldowns[r]
                      ELSE KeywordOrMember(r)

-----------------------------------------------------------------------------
(* Properties: remaining time *)

\* the resolved cooldown of rank r in milliseconds
CooldownMillis(r) ==
    IF ext = "urchin-blacklist"
    THEN cooldownTime
    ELSE Resolved(r) * MsPerSecond

\* the cooldown check of the running extension for a cooldown of cMs
AnyCooldownCheck(u, cMs, t) ==
    IF ext = "urchin-blacklist"
    THEN Urchin_isOnCooldown(cooldowns, u, t)
    ELSE RemainingSeconds(cooldowns, cMs \div MsPerSecond, u, t)

\* v is the number of started seconds left of cMs after `elapsed`
IsSecondsLeft(v, cMs, elapsed) ==
    /\ v \in Nat
    /\ v >= 1
    /\ MsPerSecond * (v - 1) < cMs - elapsed
    /\ cMs - elapsed <= MsPerSecond * v
    /\ MsPerSecond * (v - 1) < cMs

\* how long after `now` the check is asked, in ms
RemainingOffsets == {0, 1, 999, 1000, 1001, 2000}

\* the rank labels the rule is probed with: the keys with a cooldown, and
\* the absent rank
ProbeRanks == {r \in DOMAIN rankCooldowns : rankCooldowns[r] > 0} \cup {<<>>}

\* the checks of every user under every probed rank answer as the
\* remaining-time rule says, with `free` as the answer for a free user
RemainingRule(free) ==
    \A r \in IF ext = "urchin-blacklist" THEN {<<>>} ELSE ProbeRanks :
        LET cMs == CooldownMillis(r)
        IN cMs > 0 =>
            \A u \in Users, d \in RemainingOffsets :
                LET v == AnyCooldownCheck(u, cMs, now + d)
                IN IF u \in DOMAIN cooldowns /\ (now + d) - cooldowns[u] < cMs
                   THEN IsSecondsLeft(v, cMs, (now + d) - cooldowns[u])
                   ELSE v = free

\* C14 (as stated): with a record at t and a cooldown of c > 0 seconds the
\* check at now >= t returns ceil((1000c - (now - t)) / 1000), between 1 and
\* c, while now - t < 1000c, and null once now - t >= 1000c or without a
\* record, in every extension.
C14_RemainingOrNull == RemainingRule(null)

\* C14 (amended): the same remaining time while the cooldown runs; a free
\* user gets null from hypixel-stats and fun-bot and 0 from urchin-blacklist.
C14_RemainingOrFree ==
    RemainingRule(IF ext = "urchin-blacklist" THEN 0 ELSE null)

C14_Witness ==
    /\ ext = "urchin-blacklist"
    /\ \E u \in DOMAIN cooldowns :
          /\ now >= cooldowns[u]
          /\ Urchin_isOnCooldown(cooldowns, u, now) = 1
          /\ Urchin_isOnCooldown(cooldowns, u, cooldowns[u] + cooldownTime) = 0

-----------------------------------------------------------------------------
(* Properties: fun-bot !ping under cooldown *)

\* the requester of a !ping line is throttled when the line arrives
PingThrottled(u) ==
    LET cooldownRemaining ==
            FunBot_isOnCooldown(cooldowns, u, GuildRankOf(u), now)
    IN cooldownRemaining # null /\ cooldownRemaining > 0

\* C15: a !ping of a user who is not on cooldown is answered and recorded;
\* a !ping of a user who is on cooldown is rejected with a message telling
\* the remaining wait and has no handler side effect: the cooldown record
\* and the ping counter state (pingCount, lastPingTime) stay as they were.
C15_RejectedPingHasNoEffect ==
    [][\A u \in Users, ch \in Channels \ {"Other"} :
          HandlePing(u, ch) =>
              IF PingThrottled(u)
              THEN /\ chat' # {}
                   /\ cooldowns' = cooldowns
                   /\ pingCount' = pingCount
                   /\ lastPingTime' = lastPingTime
              ELSE /\ chat' # {}
                   /\ cooldowns' = setCooldown(cooldowns, u, now)]_vars

\* a second !ping inside the cooldown has been dropped without a message,
\* and the ping counter has counted it
C15_Witness ==
    /\ ext = "fun-bot"
    /\ \E u \in DOMAIN accepted :
          /\ accepted[u].n = 1
          /\ accepted[u].at = now
          /\ PingThrottled(u)
    /\ lines = 2
    /\ pingCount = 2
    /\ lastPingTime = now
    /\ chat = {}

-----------------------------------------------------------------------------
(* Properties: failure paths *)

\* execution i ends in this step because a lookup of its chain failed: a
\* fetch answered with an error status, was rejected, or a body read or the
\* message building threw
LookupFails(i) ==
    \/ \E o \in {"error", "throw"} : MojangResolve(i, o)
    \/ \E o \in {"error", "throw"} : SecondResolve(i, o)
    \/ MessageResolve(i, "throw")
    \/ \E o \in {"notFound", "notOk", "reject"} : UuidResolve(i, o)
    \/ UuidJsonResolve(i, "reject")
    \/ \E o \in {"404", "401", "429", "notOk", "reject"} : UrchinResolve(i, o)
    \/ UrchinJsonResolve(i, "reject", 0)

\* exactly one chat message has been sent in the step just taken
OneMessageSent == \E m \in chat : chat = {m} /\ m.n = 1

-----------------------------------------------------------------------------
(* Properties: the chain stops at a failed Mojang lookup *)

\* the providers called with the UUID
DownstreamTypes == {str_player, str_skyblock, str_urchin}

\* the Mojang lookup of execution i fails in this step: an error status
\* (204/404 among them), a rejected fetch or an unreadable body
MojangFails(i) ==
    \/ \E o \in {"error", "throw"} : MojangResolve(i, o)
    \/ \E o \in {"notFound", "notOk", "reject"} : UuidResolve(i, o)
    \/ UuidJsonResolve(i, "reject")

\* execution e has called a downstream provider
CalledDownstream(e) == \E n \in DOMAIN e.fetched : e.fetched[n] \in DownstreamTypes

\* C17: an execution whose Mojang lookup fails ends in that step with one
\* not-found/error message and has called no downstream provider; every
\* execution that has called a downstream provider holds the UUID it got
\* from Mojang or from the cache.
C17_NoDownstreamWithoutUuid ==
    [][/\ \A i \in 1..MaxLines :
            MojangFails(i) =>
                /\ OneMessageSent'
                /\ \A m \in chat' :
                      m.kind \in {"fetchError", "error", "notValid", "lookupFailed"}
                /\ ~CalledDownstream(execs[i])
                /\ Len(execs') = Len(execs) - 1
       /\ \A i \in DOMAIN execs' :
            CalledDownstream(execs'[i]) =>
                /\ execs'[i].mojangProfile # NoData
                /\ execs'[i].mojangProfile.id = UuidOf(execs'[i].target)]_vars

C17_Witness ==
    /\ ext = "urchin-blacklist"
    /\ chat = {Message("notValid", 1)}
    /\ \E u \in DOMAIN accepted : accepted[u].n = 1
    /\ execs = <<>>

-----------------------------------------------------------------------------
(* Properties: endpoint calls per request *)

\* how often execution e has called the endpoint of a type
Calls(e, type) == Cardinality({n \in DOMAIN e.fetched : e.fetched[n] = type})

\* C18: within one accepted request each external endpoint (Mojang, Hypixel
\* player, SkyBlock profiles, Urchin) is called at most once, the networth
\* commands included; nothing is fetched a second time.
C18_EachEndpointOnce ==
    \A i \in DOMAIN execs :
        \A type \in {str_mojang, str_player, str_skyblock, str_urchin} :
            Calls(execs[i], type) <= 1

\* a networth request that found nothing in the cache has called the Mojang
\* and the SkyBlock profiles endpoints twice each
C18_Witness ==
    \E i \in DOMAIN execs :
        /\ execs[i].handler = skyblockNetworthHandler
        /\ execs[i].fetched = <<str_mojang, str_skyblock, str_mojang, str_skyblock>>

-----------------------------------------------------------------------------
(* Properties: state left behind by a failed handler *)

\* execution i ends in this step through an exception: a rejected fetch, a
\* response that is not ok (urchin-blacklist throws on it), an unreadable
\* body or a throwing message builder
HandlerThrows(i) ==
    \/ MojangResolve(i, "throw")
    \/ SecondResolve(i, "throw")
    \/ MessageResolve(i, "throw")
    \/ \E o \in {"notOk", "reject"} : UuidResolve(i, o)
    \/ UuidJsonResolve(i, "reject")
    \/ \E o \in {"notOk", "reject"} : UrchinResolve(i, o)
    \/ UrchinJsonResolve(i, "reject", 0)

\* user u would be throttled by the cooldown check made at time t
Throttled(u, t) ==
    LET c == CooldownMsOf(u)
        v == AnyCooldownCheck(u, IF c = null THEN 0 ELSE c, t)
    IN v # null /\ v > 0

-----------------------------------------------------------------------------
(* Properties: exclusive command dispatch *)

\* positions <<r, j>> of the registered command patterns: pattern j of the
\* r-th registered extension
CommandPositions ==
    UNION {{<<r, j>> : j \in {k \in DOMAIN PatternsOf(registered[r]) :
                                 PatternsOf(registered[r])[k].class = "command"}} :
           r \in DOMAIN registered}

PatternAt(rj) == PatternsOf(registered[rj[1]])[rj[2]]

\* the command patterns that match the dispatched message
Candidates == {rj \in CommandPositions : Matches(PatternAt(rj), sender, message)}

\* a comes before b in ascending priority, registration order among equals
Before(a, b) ==
    \/ PatternAt(a).priority < PatternAt(b).priority
    \/ /\ PatternAt(a).priority = PatternAt(b).priority
       /\ \/ a[1] < b[1]
          \/ a[1] = b[1] /\ a[2] < b[2]

\* the command handlers the last line invoked
InvokedCommands ==
    SelectSeq(invoked,
              LAMBDA id : \E rj \in CommandPositions : PatternAt(rj).id = id)

IsRegistered(extensionId) == \E r \in DOMAIN registered : registered[r] = extensionId

\* C20: for every chat line at most one command handler is invoked, that of
\* the first matching command pattern in ascending priority order;
\* `!analytics weekly` invokes the weekly handler and not the general one, and
\* `!help` invokes the help handler of hypixel-stats and not that of fun-bot.
C20_FirstCommandOnly ==
    /\ Len(InvokedCommands) <= 1
    /\ IF Candidates = {} THEN InvokedCommands = <<>>
       ELSE \E c \in Candidates :
               /\ \A d \in Candidates \ {c} : Before(c, d)
               /\ InvokedCommands = <<PatternAt(c).id>>
    /\ (message = <<"!","a","n","a","l","y","t","i","c","s"," ","w","e","e","k","l","y">> /\ IsRegistered("staff-management"))
          => InvokedCommands = <<"analytics-weekly">>
    /\ (message = str_help /\ IsRegistered("hypixel-stats"))
          => InvokedCommands = <<"hypixel-help">>

\* `!help` with fun-bot registered before hypixel-stats: the hypixel-stats
\* help handler alone is invoked, next to the guild chat log
C20_Witness ==
    /\ message = str_help
    /\ \E i, j \in DOMAIN registered :
          i < j /\ registered[i] = "fun-bot" /\ registered[j] = "hypixel-stats"
    /\ IsRegistered("staff-management")
    /\ invoked = <<"hypixel-help", "analytics-guild-chat">>

\* ---------------------------------------------------------------------------
\* Logging patterns
\* ---------------------------------------------------------------------------

\* the registered logging patterns
LoggingPatterns ==
    {p \in {allPatterns(registered)[i] : i \in DOMAIN allPatterns(registered)} :
        p.class = "logging"}

\* how many times the last line invoked the handler of pattern id
Invocations(id) == Len(SelectSeq(invoked, LAMBDA x : x = id))

\* C21: logging patterns are not exclusive: for every chat line, each
\* registered logging pattern that matches the raw line has its handler
\* invoked exactly once (and one that does not match, never), whether or not a
\* command pattern matched; a guild chat line that carries a command is
\* dispatched to the command and counted once as a message.
C21_LoggingNotExclusive ==
    /\ \A p \in LoggingPatterns :
          Invocations(p.id) = IF Matches(p, sender, message) THEN 1 ELSE 0
    /\ (IsRegistered("staff-management") /\ MatchesGuildChat(RawOf(sender, message)))
          => logged = 1
    /\ (IsRegistered("staff-management") /\ Candidates # {}
          /\ MatchesGuildChat(RawOf(sender, message)))
          => Len(InvokedCommands) = 1 /\ Invocations("analytics-guild-chat") = 1

\* Bob's guild chat line `!ping`: the ping handler runs and the line is
\* counted once as a message
C21_Witness ==
    /\ sender = Bob
    /\ message = <<"!","p","i","n","g">>
    /\ invoked = <<"fun-ping", "analytics-guild-chat">>
    /\ logged = 1

\* ---------------------------------------------------------------------------
\* Pattern registry
\* ---------------------------------------------------------------------------

\* the position of pattern p in the registration-order list
FlatIndex(p) == CHOOSE i \in DOMAIN Flat(registered) : Flat(registered)[i] = p

\* C22: allPatterns() returns every registered pattern of every extension
\* exactly once (an extension registered again replaces its prior
\* registration), sorted ascending by priority, patterns of equal priority in
\* registration order; this holds after any sequence of register calls.
C22_AllPatternsSortedStable ==
    LET flat == Flat(registered)
        all == allPatterns(registered)
    IN /\ \A i, j \in DOMAIN registered : i # j => registered[i] # registered[j]
       /\ Len(all) = Len(flat)
       /\ \A i \in DOMAIN flat :
             Cardinality({j \in DOMAIN all : all[j] = flat[i]}) = 1
       /\ \A i, j \in DOMAIN all :
             i < j => \/ all[i].priority < all[j].priority
                      \/ /\ all[i].priority = all[j].priority
                         /\ FlatIndex(all[i]) < FlatIndex(all[j])

\* all four extensions registered, fun-bot before staff-management: the
\* priority-1 patterns come first and fun-bot's `help` (5) is followed by
\* staff-management's analytics-weekly (5)
C22_Witness ==
    LET all == allPatterns(registered)
    IN /\ Len(registered) = 4
       /\ \E i, j \in DOMAIN registered :
             i < j /\ registered[i] = "fun-bot" /\ registered[j] = "staff-management"
       /\ all[1].priority = 1
       /\ \E k \in DOMAIN all :
             k < Len(all) /\ all[k].id = "help" /\ all[k + 1].id = "analytics-weekly"
       /\ message = <<"!","h","e","l","p"," ","p","i","n","g">>

\* ---------------------------------------------------------------------------
\* Handler failures
\* ---------------------------------------------------------------------------

\* C23: a handler that throws or whose promise rejects does not stop the
\* dispatcher: the loop stays alive after every caught rejection, and every
\* chat line can be dispatched whatever handlers are still pending (up to the
\* bound on pending promises); the dispatcher never awaits a handler.
C23_DispatcherSurvivesHandlerFailure ==
    /\ running
    /\ \A line \in ChatLines :
          outstanding + Len(Dispatched[<<registered, line>>]) <= MaxOutstanding
             => ENABLED Dispatch(line[1], line[2])

\* a handler has rejected, and the last line was dispatched to its handler
\* while a handler of an earlier line was still pending
C23_Witness ==
    /\ caught
    /\ running
    /\ Len(invoked) = 1
    /\ outstanding = 2

\* ---------------------------------------------------------------------------
\* Order of completions
\* ---------------------------------------------------------------------------

\* execution i completes in this step
Completes(i) ==
    \E o \in {"ok", "error", "throw"} :
        MojangResolve(i, o) \/ SecondResolve(i, o) \/ MessageResolve(i, o)

Listening == {c \in DOMAIN calls : calls[c].listening}

\* C25: every call of updateOnlinePlayers eventually resolves, and never
\* stays pending: a collecting call resolves on the second boundary line with
\* the data it collected itself, or when its timer goes off with the
\* lastUpdate of that moment, which is not its own data.
C25_EveryCallResolves ==
    /\ []<>(\A c \in DOMAIN calls : calls[c].resolved)
    /\ [](\A c \in DOMAIN calls :
            (calls[c].collector /\ calls[c].resolved) =>
               \/ calls[c].by = "bound" /\ calls[c].boundReceived = 2
                    /\ calls[c].value.from = c
               \/ calls[c].by = "timeout" /\ calls[c].boundReceived < 2
                    /\ calls[c].value.from # c)

\* one collector resolved on its second boundary line with a player it
\* collected, another resolved by its timer with that update as fallback
C25_Witness ==
    \E c, d \in DOMAIN calls :
        /\ calls[c].by = "bound" /\ calls[c].value = [from |-> c, players |-> 1]
        /\ calls[d].by = "timeout" /\ calls[d].value = calls[c].value

\* C26: the collector deregisters its listener on the completion path and on
\* the timeout path: a resolved promise has no registered listener, every
\* registered listener belongs to an unresolved collector whose timer is
\* still set, so no listener outlives its collector.
C26_ListenerDeregistered ==
    /\ \A c \in DOMAIN calls : calls[c].resolved => ~calls[c].listening
    /\ \A c \in Listening : calls[c].collector /\ calls[c].timer
    /\ Cardinality(Listening)
          = Cardinality({c \in DOMAIN calls : ~calls[c].resolved})

\* a collector has completed on its second boundary line, its listener is
\* gone while its timer is still set, and a later collector timed out
C26_Witness ==
    \E c, d \in DOMAIN calls :
        /\ calls[c].by = "bound" /\ calls[c].timer /\ ~calls[c].listening
        /\ calls[d].by = "timeout" /\ ~calls[d].listening

\* C29: at most one collector is active at a time: isUpdating is true exactly
\* while a collector's listener is registered and its promise unresolved.
C29_AtMostOneCollector ==
    /\ Cardinality(Listening) <= 1
    /\ isUpdating <=> Listening # {}

\* two collectors listen at once: the timer of an earlier, completed collector
\* reset isUpdating while the second was collecting, and a third call started
C29_Witness ==
    /\ Cardinality(Listening) = 2
    /\ calls[1].by = "bound"
    /\ ~calls[1].timer
    /\ isUpdating

\* ---------------------------------------------------------------------------
\* Request keys of different commands
\* ---------------------------------------------------------------------------

\* the requester runs an execution of this command for this target
Serving(u, h, target) ==
    \E i \in DOMAIN execs :
        /\ execs[i].requester = u
        /\ execs[i].handler.command = h.command
        /\ execs[i].target = target

\* C27: two requests by the same requester for the same target with different
\* commands have different request keys and neither is dropped as a
\* duplicate: a command of a requester who is not throttled, and who has no
\* execution of that command for that target in flight, starts an execution.
C27_DifferentCommandsBothServed ==
    [][ \A l \in DuelsLines :
          ( /\ StatsCommand(l[1], l[2], l[3])
            /\ ~Serving(l[1], l[2], TargetOf(l[3], l[1])) )
             => /\ Len(execs') = Len(execs) + 1
                /\ execs'[Len(execs')].handler = l[2]
                /\ execs'[Len(execs')].requestKey
                      \notin {execs[i].requestKey : i \in DOMAIN execs} ]_vars

\* ---------------------------------------------------------------------------
\* The cooldown sweep and throttling
\* ---------------------------------------------------------------------------

\* the cooldown map as it would be had no sweep ever run: the time of each
\* user's last accepted request
Unswept == [u \in DOMAIN accepted |-> accepted[u].at]

\* the extension's cooldown check of user u against the map cds, now
SweepCheck(cds, u) ==
    CASE ext = "hypixel-stats" -> isOnCooldown(cds, u, GuildRankOf(u), now)
      [] ext = "fun-bot" -> FunBot_isOnCooldown(cds, u, GuildRankOf(u), now)
      [] OTHER -> Urchin_isOnCooldown(cds, u, now)

\* C28: the periodic cooldown sweep is invisible to throttling: it never
\* deletes a record that would still throttle, so every cooldown check gives
\* the result it would give had the sweep never run.
C28_SweepInvisible ==
    \A u \in Users : SweepCheck(cooldowns, u) = SweepCheck(Unswept, u)

\* hypixel-stats with a fifteen-minute Member cooldown: the sweep has deleted
\* Alice's record ten minutes and a second after her request, and her next
\* request would pass although five minutes of her cooldown remain
C28_Witness ==
    /\ ext = "hypixel-stats"
    /\ Alice \in DOMAIN accepted
    /\ Alice \notin DOMAIN cooldowns
    /\ SweepCheck(cooldowns, Alice) = null
    /\ SweepCheck(Unswept, Alice) = 299

\* ---------------------------------------------------------------------------
\* destroy()
\* ---------------------------------------------------------------------------

\* C30: destroy() stops both cleanup timers and empties the cooldown map, the
\* cache and the in-flight set, and these stay empty afterwards, also when
\* handlers were awaiting a fetch at the time of the destroy.
C30_DestroyedStaysEmpty ==
    lifecycle = "destroy" =>
        /\ cooldowns = EmptyMap
        /\ cache = EmptyMap
        /\ processingRequests = {}

\* after destroy() a handler that was awaiting fetchMojangProfile has written
\* the profile to the cache and goes on to fetch the player
C30_Witness ==
    /\ lifecycle = "destroy"
    /\ cache # EmptyMap
    /\ \E i \in DOMAIN execs : execs[i].pc = "awaitSecond"
    /\ cooldowns = EmptyMap
    /\ processingRequests = {}

-----------------------------------------------------------------------------
(* Properties: the cache holds results of successful lookups only *)

\* the fetch execution i awaits settles in this step with an error value or
\* a rejection
FetchFails(i) ==
    \/ \E o \in {"error", "throw"} : MojangResolve(i, o)
    \/ \E o \in {"error", "throw"} : SecondResolve(i, o)

\* the fetch execution i awaits settles in this step with a result, kept
\* under key with the data d
FetchSucceeds(i, key, d) ==
    \/ /\ MojangResolve(i, "ok")
       /\ key = generateCacheKey(str_mojang, execs[i].target, <<>>)
       /\ d = MojangProfile(execs[i].target, now)
    \/ /\ SecondResolve(i, "ok")
       /\ key = generateCacheKey(SecondType(execs[i].handler),
                                 execs[i].mojangProfile.id, <<>>)
       /\ d = ProviderData(SecondType(execs[i].handler),
                           execs[i].mojangProfile.id, now)

\* C31: a fetch that answers with an error value or throws leaves the cache
\* exactly as it was; every entry a step writes or replaces is the result of
\* a fetch that succeeded in that step; and a request accepted while the
\* cache has no unexpired Mojang entry for its target fetches from Mojang.
C31_CacheHoldsSuccessesOnly ==
    [][/\ \A i \in 1..MaxLines : FetchFails(i) => cache' = cache
       /\ \A k \in DOMAIN cache' :
             (k \notin DOMAIN cache \/ cache'[k] # cache[k]) =>
                 \E i \in DOMAIN execs :
                     /\ FetchSucceeds(i, k, cache'[k].data)
                     /\ cache'[k].timestamp = now
       /\ \A l \in StatsLines :
             (/\ StatsCommand(l[1], l[2], l[3])
              /\ Len(execs') > Len(execs)
              /\ ~Fresh(cache, generateCacheKey(str_mojang, TargetOf(l[3], l[1]), <<>>), now))
                => /\ execs'[Len(execs')].pc = "awaitMojang"
                   /\ execs'[Len(execs')].fetched = <<str_mojang>>]_vars

\* the player lookup of a request has failed with the Mojang profile of its
\* target cached before: the profile is still cached, no player data is
C31_Witness ==
    /\ ext = "hypixel-stats"
    /\ chat = {Message("fetchError", 1)}
    /\ generateCacheKey(str_mojang, Steve, <<>>) \in DOMAIN cache
    /\ generateCacheKey(str_player, UuidOf(Steve), <<>>) \notin DOMAIN cache
    /\ execs = <<>>
    /\ lines = 1

-----------------------------------------------------------------------------
(* Properties: timers over the lifecycle *)

\* the interval fields of the extensions
IntervalFields ==
    {"cleanupInterval", "cacheCleanupInterval", "reportInterval", "saveInterval"}

\* the scheduled timers of one kind
Scheduled(field) == {t \in timers : t[1] = field}

\* C32: after any sequence of init, destroy and onDisable calls at most one
\* timer of each kind is scheduled, and after destroy no timer is scheduled.
C32_OneTimerPerKind ==
    /\ \A f \in IntervalFields : Cardinality(Scheduled(f)) <= 1
    /\ lifecycle = "destroy" => timers = {}

\* staff-management was initialised once and then destroyed: the auto-save
\* interval is still scheduled
C32_Witness ==
    /\ ext = "staff-management"
    /\ lifecycle = "destroy"
    /\ timerIds = 2
    /\ timers = {<<"saveInterval", 2>>}

-----------------------------------------------------------------------------
(* Properties: fun-bot's sendResponse *)

\* the api.chat call that answers a line of a channel
DestinationOf(channel) ==
    CASE channel \in {"Guild", "Officer"} -> "guild"
      [] channel = "From" -> "private"
      [] channel = "Party" -> "party"
      [] OTHER -> "none"

\* a sendResponse call for user u passes the enabled check and the cooldown
\* check
PassesChecks(u) ==
    /\ enabled
    /\ LET r == FunBot_isOnCooldown(cooldowns, u, GuildRankOf(u), now)
       IN ~(r # null /\ r > 0)

\* C33: every sendResponse call that passes the enabled check and the
\* cooldown check records the cooldown and sends exactly one message, through
\* the api.chat call its channel selects; a call that is throttled or
\* disabled sends nothing and leaves the cooldown records as they were.
C33_OneMessagePerPassingCall ==
    [][\A u \in Users, ch \in Channels :
          (SendResponse(u, ch) \/ HandlePing(u, ch)) =>
              IF PassesChecks(u)
              THEN /\ u \in DOMAIN cooldowns' /\ cooldowns'[u] = now
                   /\ chat' = {Message(DestinationOf(ch), 1)}
                   /\ DestinationOf(ch) # "none"
              ELSE /\ chat' = {}
                   /\ cooldowns' = cooldowns]_vars

\* the first line fun-bot answered has its cooldown recorded, and no message
\* was sent for it
C33_Witness ==
    /\ ext = "fun-bot"
    /\ enabled
    /\ lines = 1
    /\ now = StartTime
    /\ chat = {}
    /\ \E u \in Users : u \in DOMAIN cooldowns /\ cooldowns[u] = now

-----------------------------------------------------------------------------
(* Properties: the bot-mention handler *)

\* the handler passes the mention of user u on to sendResponse in this step:
\* it records the response key of the current window
PassedOn(u) ==
    /\ lastResponseKey(u, now) \notin DOMAIN recentResponses
    /\ lastResponseKey(u, now) \in DOMAIN recentResponses'

\* C34: the bot-mention handler never passes on to sendResponse two mentions
\* of one user that are less than five seconds apart, and after an accepted
\* mention recentResponses holds no entry older than ten seconds.
C34_OncePerFiveSeconds ==
    [][\A u \in Users :
          PassedOn(u) =>
             /\ \A k \in DOMAIN recentResponses :
                   k[1] = u => now - recentResponses[k] >= ResponseWindow
             /\ \A k \in DOMAIN recentResponses' :
                   now - recentResponses'[k] <= ResponseMaxAge]_vars

\* two mentions of one user recorded in adjacent windows, 2.5 seconds apart
C34_Witness ==
    /\ ext = "fun-bot"
    /\ \E u \in Users :
          /\ lastResponseKey(u, now) \in DOMAIN recentResponses
          /\ recentResponses[lastResponseKey(u, now)] = now
          /\ \E k \in DOMAIN recentResponses :
                k[1] = u /\ now - recentResponses[k] = MentionStep

-----------------------------------------------------------------------------
(* Properties: staff permissions *)

\* the rank hasPermission compares for a line with context.guildRank and, if
\* that is absent or Unknown, the fetched rank (<<>>: not resolved)
ResolvedRank(guildRank, fetchedRank) ==
    IF NeedsFetch(guildRank) THEN fetchedRank ELSE guildRank

\* the resolved rank, written in brackets, is one the command requires
RankAllows(command, rank) ==
    /\ rank # <<>>
    /\ (IF Head(rank) = "[" THEN rank ELSE <<"[">> \o rank \o <<"]">>)
          \in (IF command = "reboot"
               THEN {<<"[","L","e","a","d","e","r","]">>, <<"[","G","M","]">>,
                     <<"[","G","u","i","l","d"," ","M","a","s","t","e","r","]">>}
               ELSE {<<"[","L","e","a","d","e","r","]">>, <<"[","G","M","]">>,
                     <<"[","G","u","i","l","d"," ","M","a","s","t","e","r","]">>,
                     <<"[","M","o","d","]">>})

\* the executions awaiting the save of a !reboot or !save
AwaitingSave(ex) == {i \in DOMAIN ex : ex[i].pc = "awaitSave"}

\* the step just taken acted on a staff command: it answered with other than
\* the access-denied message, started a save, or set the exit timer
StaffActed ==
    \/ \E m \in chat' : m.kind # "denied"
    \/ saves' # saves
    \/ exitScheduled' # exitScheduled
    \/ Cardinality(AwaitingSave(execs')) > Cardinality(AwaitingSave(execs))

\* C35: a staff command acts only when the requester's rank (from the chat
\* context, or fetched when absent or Unknown), written in brackets, is one
\* the command requires, and then it does act: !reboot and !save start the
\* save, and !reboot sets the exit timer once the save has settled; any other
\* requester, and any whose rank cannot be resolved, takes the access-denied
\* path and nothing is done.
C35_StaffOnly ==
    [][/\ \A k \in DOMAIN sent' :
            IF RankAllows(sent'[k].command, sent'[k].rank)
            THEN /\ sent'[k].outcome = "granted"
                 /\ \A m \in chat' : m.kind # "denied"
                 /\ sent'[k].command \in {"reboot", "save"} =>
                        /\ saves' = saves + 1
                        /\ Cardinality(AwaitingSave(execs')) =
                              Cardinality(AwaitingSave(execs)) + 1
            ELSE /\ sent'[k].outcome = "denied"
                 /\ ~StaffActed
       /\ \A l \in StaffLines :
            StaffCommand(l[1], l[2], l[3], l[4]) =>
                IF NeedsFetch(l[3])
                THEN sent' = <<>> /\ ~StaffActed /\ chat' = {}
                ELSE /\ sent' # <<>>
                     /\ sent'[1].rank = ResolvedRank(l[3], <<>>)
                     /\ sent'[1].command = l[2]
       /\ \A i \in DOMAIN execs, f \in FetchedRanks :
            RankResolve(i, f) =>
                /\ sent' # <<>>
                /\ sent'[1].rank = ResolvedRank(execs[i].guildRank, f)
                /\ sent'[1].command = execs[i].command
       /\ \A i \in DOMAIN execs : DeniedResolve(i) => ~StaffActed
       /\ (exitScheduled' /\ ~exitScheduled) =>
             \E i \in DOMAIN execs :
                 /\ SaveResolve(i)
                 /\ execs[i].command = "reboot"
       /\ Cardinality(AwaitingSave(execs')) > Cardinality(AwaitingSave(execs)) =>
             /\ sent' # <<>>
             /\ sent'[1].outcome = "granted"]_vars

\* the one command of the behaviour was a !reboot of a permitted requester:
\* its save has settled and the exit timer is set
C35_Witness ==
    /\ ext = "staff-management"
    /\ exitScheduled
    /\ saves = 1
    /\ lines = 1
    /\ execs = <<>>

-----------------------------------------------------------------------------
(* Properties: analytics logging *)

\* the stats of the day of time t in analytics data ad (zero if none yet)
DayStats(ad, t) == MapGet(ad.dailyStats, today(t), ZeroDay)

\* C36: every line that reaches the guild level-up handler increases today's
\* guildLevelUps and totalStats.totalLevelUps by 1, and every line that
\* reaches the quest-completed or the quest-tier-completed handler increases
\* today's questsCompleted and totalStats.totalQuests by 1.
C36_LevelUpsAndQuestsCounted ==
    [][\A k \in DOMAIN sent' :
          /\ sent'[k].handler = "handleGuildLevelUpLog" =>
                /\ DayStats(analyticsData', now).guildLevelUps =
                      DayStats(analyticsData, now).guildLevelUps + 1
                /\ analyticsData'.totalStats.totalLevelUps =
                      analyticsData.totalStats.totalLevelUps + 1
          /\ sent'[k].handler \in {"handleQuestCompleteLog", "handleQuestTierCompleteLog"} =>
                /\ DayStats(analyticsData', now).questsCompleted =
                      DayStats(analyticsData, now).questsCompleted + 1
                /\ analyticsData'.totalStats.totalQuests =
                      analyticsData.totalStats.totalQuests + 1]_vars

\* a guild level-up line has just been handled, and neither counter moved
C36_Witness ==
    /\ ext = "staff-management"
    /\ events = 1
    /\ \E k \in DOMAIN sent : sent[k].handler = "handleGuildLevelUpLog"
    /\ analyticsData.totalStats.totalLevelUps = 0
    /\ DayStats(analyticsData, now).guildLevelUps = 0

\* the sum of a per-day counter over a set of days
RECURSIVE SumOverDays(_, _, _)
SumOverDays(stats, days, field) ==
    IF days = {} THEN 0
    ELSE LET d == CHOOSE x \in days : TRUE
         IN stats[d][field] + SumOverDays(stats, days \ {d}, field)

\* each all-time total with the per-day counter it sums
TotalOfCounter ==
    {<<"totalMessages", "messagesReceived">>, <<"totalJoins", "membersJoined">>,
     <<"totalLeaves", "membersLeft">>, <<"totalKicks", "membersKicked">>,
     <<"totalPromotions", "promotions">>, <<"totalDemotions", "demotions">>}

TotalsAreSums ==
    \A tc \in TotalOfCounter :
        analyticsData.totalStats[tc[1]] =
            SumOverDays(analyticsData.dailyStats, DOMAIN analyticsData.dailyStats, tc[2])

ActiveAreChatters ==
    \A d \in DOMAIN analyticsData.dailyStats :
        LET s == analyticsData.dailyStats[d]
        IN s.activeUsers = {p \in DOMAIN s.topChatters : s.topChatters[p] > 0}

\* C37: from zeroed analytics data, after any sequence of logged events every
\* all-time total (messages, joins, leaves, kicks, promotions, demotions) is
\* the sum of its per-day counter over all days, and each day's activeUsers is
\* exactly the set of players whose topChatters count of that day is positive.
C37_CountersConsistent ==
    ext = "staff-management" => TotalsAreSums /\ ActiveAreChatters

\* a message of the player named constructor was logged on day 0: the player
\* is in activeUsers and the topChatters entry is not a number
C37_Witness ==
    /\ ext = "staff-management"
    /\ 0 \in DOMAIN analyticsData.dailyStats
    /\ str_constructor \in analyticsData.dailyStats[0].activeUsers
    /\ str_constructor \in DOMAIN analyticsData.dailyStats[0].topChatters
    /\ analyticsData.dailyStats[0].topChatters[str_constructor] = NonNumeric

\* C38: over any sequence of logged events of any types, logEvent has
\* triggered saveAnalyticsData exactly once per 10 events logged.
C38_SaveEveryTenEvents ==
    ext = "staff-management" => saves = events \div 10

\* one event has been logged, a join, and logEvent has triggered a save
C38_Witness ==
    /\ ext = "staff-management"
    /\ events = 1
    /\ saves = 1
    /\ analyticsData.totalStats.totalJoins = 1

-----------------------------------------------------------------------------
(* Properties: bi-weekly report *)

\* C39: the bi-weekly report is sent at most once per 14-day period, however
\* the hourly checks interleave with the pending send and save of earlier
\* checks: any two reports are at least 14 days apart, and once the checks
\* have run to their end lastReportDate is the day of the last report.
C39_OneReportPerFortnight ==
    ext = "staff-management" =>
        /\ \A i, j \in DOMAIN reports :
              i < j => reports[j] - reports[i] >= 14
        /\ (execs = <<>> /\ reports # <<>>) =>
              analyticsData.lastReportDate = reports[Len(reports)]

\* two checks an hour apart have each sent the report of day 14, the second
\* while the send of the first was pending
C39_Witness ==
    /\ ext = "staff-management"
    /\ reports = <<14, 14>>
    /\ Len(execs) = 2
    /\ execs[1].pc = "awaitSend"

====
